---------------------------- MODULE Spec2Model ----------------------------
(***************************************************************************)
(* Search & filter engine of medicalordertreeview.                         *)
(*                                                                         *)
(*   SearchOptimizer (InvertedIndexBuilder + SearchCache)                  *)
(*       src/unnamed/part_006, lines 471-916                               *)
(*   AdvancedFilter (FilterCondition + CompositeFilter)                    *)
(*       src/unnamed/part_002, lines 13-417                                *)
(*   TableRenderer (keyword search and advanced filters of one table)      *)
(*       src/static/js/table-renderer.js, lines 10-847                     *)
(*   FilterUIManager (the checkbox panel feeding an AdvancedFilter)        *)
(*       src/unnamed/part_002, lines 503-677                               *)
(*   FilterHistory (undo / redo of filter edits)                           *)
(*       src/static/js/filter-ux-enhancement.js, lines 290-400             *)
(*                                                                         *)
(* JavaScript strings are sequences of one-character strings, so that      *)
(* toLowerCase, trim, startsWith, includes, substring and parseFloat are   *)
(* computed character by character.  A JavaScript Set or Map is a sequence *)
(* in insertion order (the order forEach and keys() follow).  Row indices  *)
(* are 0-based as in the source; data is a sequence, so row i is data[i+1].*)
(* performance.now()/Date.now() values and the reporting-only counters of  *)
(* SearchCache (hits, misses), SearchOptimizer.stats and AdvancedFilter    *)
(* stats (totalFilters, cacheMisses, filterTime) are never read by any     *)
(* decision of the code and are left out of the state.                     *)
(***************************************************************************)
EXTENDS Integers, Sequences, FiniteSets, TLC

VARIABLES
    data,       \* SearchOptimizer.data: the indexed rows
    columns,    \* SearchOptimizer.columns: the column keys
    index,      \* InvertedIndexBuilder.index: token -> row indices
    cache,      \* SearchCache.cache: entries in insertion order
    call,       \* the call made last on the SearchOptimizer
    ret,        \* what that call returned
    conditions,     \* CompositeFilter.conditions of AdvancedFilter.compositeFilter
    logic,          \* CompositeFilter.logic
    evaluations,    \* CompositeFilter.stats.evaluations
    shortCircuits,  \* CompositeFilter.stats.shortCircuits
    columnFilters,  \* AdvancedFilter.columnFilters, in insertion order
    dateRanges,     \* AdvancedFilter.dateRanges, in insertion order
    numericRanges,  \* AdvancedFilter.numericRanges, in insertion order
    filterResults,  \* AdvancedFilter.filterResults, in insertion order
    cacheHits,      \* AdvancedFilter.stats.cacheHits
    fcall,          \* the call made last on the AdvancedFilter
    fret,           \* what AdvancedFilter.filter returned last
    touched,    \* what the last SearchOptimizer call read: rows of data, the index
    probe,      \* the call made last on a single method: its name and arguments
    result,     \* what that call returned
    filteredData,       \* TableRenderer.filteredData: the rows shown
    lastSearchKeyword,  \* TableRenderer.lastSearchKeyword
    useOptimizedSearch, \* TableRenderer.useOptimizedSearch
    sortColumn,         \* TableRenderer.sortColumn ("none" for null)
    sortDirection,      \* TableRenderer.sortDirection
    filteredAlias,      \* the filterResults entry whose results array
                        \* filteredData is (the same object), if any
    checked,        \* FilterUIManager: the checked checkboxes of its panel
    activeFilters,  \* FilterUIManager.activeFilters, in insertion order
    history,        \* FilterHistory.history
    currentIndex    \* FilterHistory.currentIndex

searchVars == <<data, columns, index, cache, call, ret, touched>>

filterVars == <<conditions, logic, evaluations, shortCircuits, columnFilters,
                dateRanges, numericRanges, filterResults, cacheHits, fcall, fret>>

probeVars == <<probe, result>>

renderVars == <<filteredData, lastSearchKeyword, useOptimizedSearch, sortColumn,
                sortDirection, filteredAlias>>

uxVars == <<checked, activeFilters, history, currentIndex>>

vars == <<searchVars, filterVars, probeVars, renderVars, uxVars>>

-----------------------------------------------------------------------------
(* Bounds of the model *)

\* SearchCache.maxSize of the instance under check (constructor argument;
\* the source's default is 20).
maxSize == 2

\* The hitCounts of the cached entries are not driven beyond this in total.
MaxHits == 1

\* Capacity of AdvancedFilter.filterResults in the model; the source's
\* literal is 20 (part_002:362).
FilterCacheMax == 2

\* CompositeFilter.conditions is not grown beyond this length.
MaxConds == 2

\* The counters evaluations and cacheHits are not driven beyond these.
MaxEvaluations == 12
MaxCacheHits == 1

-----------------------------------------------------------------------------
(* JavaScript values and strings *)

Undef == [t |-> "undef"]
Num(n) == [t |-> "num", n |-> n]
Str(s) == [t |-> "str", s |-> s]
Arr(a) == [t |-> "arr", a |-> a]

Min2(a, b) == IF a <= b THEN a ELSE b

Range(s) == {s[i] : i \in 1..Len(s)}

\* String.prototype.toLowerCase on one character
LowerChar(c) ==
    CASE c = "A" -> "a"
      [] c = "B" -> "b"
      [] c = "C" -> "c"
      [] OTHER -> c

toLowerCase(s) == [i \in 1..Len(s) |-> LowerChar(s[i])]

\* String.prototype.trim
trim(s) ==
    LET solid == {i \in 1..Len(s) : s[i] # " "}
    IN  IF solid = {} THEN <<>>
        ELSE LET first == CHOOSE i \in solid : \A j \in solid : i <= j
                 last  == CHOOSE i \in solid : \A j \in solid : j <= i
             IN  SubSeq(s, first, last)

\* String.prototype.startsWith
startsWith(s, p) == Len(p) <= Len(s) /\ SubSeq(s, 1, Len(p)) = p

\* String.prototype.includes
includes(s, k) ==
    \E i \in 1..(Len(s) - Len(k) + 1) : SubSeq(s, i, i + Len(k) - 1) = k

DigitChar(d) == <<"0", "1", "2", "3", "4", "5", "6", "7", "8", "9">>[d + 1]

RECURSIVE NatToString(_)
NatToString(n) ==
    IF n < 10 THEN <<DigitChar(n)>>
    ELSE Append(NatToString(n \div 10), DigitChar(n % 10))

\* String(v) for a number
NumToString(n) == IF n < 0 THEN <<"-">> \o NatToString(-n) ELSE NatToString(n)

\* String(v || ''): undefined, '' and 0 are falsy and give ''
StringOrEmpty(v) ==
    CASE v.t = "undef" -> <<>>
      [] v.t = "num"   -> IF v.n = 0 THEN <<>> ELSE NumToString(v.n)
      [] v.t = "str"   -> v.s

\* row[key]: undefined when the row has no such property
Field(row, key) == IF key \in DOMAIN row THEN row[key] ELSE Undef

-----------------------------------------------------------------------------
(* InvertedIndexBuilder *)

NGramMin == 2
NGramMax == 4

\* Set.prototype.add on an insertion-ordered set
SetAdd(s, x) == IF x \in Range(s) THEN s ELSE Append(s, x)

\* tokens.add of each element of xs in turn
RECURSIVE AddAll(_, _)
AddAll(s, xs) == IF xs = <<>> THEN s ELSE AddAll(SetAdd(s, Head(xs)), Tail(xs))

\* text.substring(i, i + len) for i = 0 .. text.length - len
Grams(text, len) == [i \in 1..(Len(text) - len + 1) |-> SubSeq(text, i, i + len - 1)]

\* the loop `for (len = 2; len <= 4 && len <= text.length; len++)`
RECURSIVE AllGrams(_, _)
AllGrams(text, len) ==
    IF len > Min2(NGramMax, Len(text)) THEN <<>>
    ELSE Grams(text, len) \o AllGrams(text, len + 1)

\* tokenize without its third step, the whole text
tokenizeNoWholeText(text) ==
    IF Len(text) = 0 THEN <<>>
    ELSE AddAll(<<>>, Grams(text, 1) \o AllGrams(text, NGramMin))

\* tokenize with n-grams of up to 5 characters
tokenizeFiveGrams(text) ==
    IF Len(text) = 0 THEN <<>>
    ELSE AddAll(<<>>, Grams(text, 1) \o AllGrams(text, NGramMin)
                       \o (IF Len(text) >= 5 THEN Grams(text, 5) ELSE <<>>) \o <<text>>)

\* InvertedIndexBuilder.tokenize: Array.from of the Set the three steps fill
tokenize(text) ==
    IF Len(text) = 0 THEN <<>>
    ELSE AddAll(<<>>, Grams(text, 1) \o AllGrams(text, NGramMin) \o <<text>>)

\* the tokens the inner columns.forEach of build adds for one row
RowTokens(row, cols) ==
    UNION {Range(tokenize(trim(toLowerCase(StringOrEmpty(Field(row, cols[c]))))))
              : c \in 1..Len(cols)}

\* one iteration of data.forEach in build
IndexAddRow(idx, row, cols, rowIndex) ==
    LET toks == RowTokens(row, cols)
    IN  [tok \in (DOMAIN idx) \cup toks |->
            IF tok \in toks
            THEN IF tok \in DOMAIN idx THEN SetAdd(idx[tok], rowIndex) ELSE <<rowIndex>>
            ELSE idx[tok]]

RECURSIVE BuildFrom(_, _, _, _)
BuildFrom(idx, rows, cols, i) ==
    IF i >= Len(rows) THEN idx
    ELSE BuildFrom(IndexAddRow(idx, rows[i + 1], cols, i), rows, cols, i + 1)

\* build without the index.clear() it starts with
rebuildNoClear(idx, rows, cols) == BuildFrom(idx, rows, cols, 0)

\* InvertedIndexBuilder.build on a builder whose index is idx: index.clear(),
\* then every row in order
rebuild(idx, rows, cols) == BuildFrom(<<>>, rows, cols, 0)

\* InvertedIndexBuilder.build on a new builder
build(rows, cols) == rebuild(<<>>, rows, cols)

\* InvertedIndexBuilder.search looking the keyword up as typed
indexSearchNoTrim(idx, keyword) ==
    LET cleanKeyword == toLowerCase(keyword)
    IN  IF Len(cleanKeyword) = 0 THEN <<>>
        ELSE IF cleanKeyword \in DOMAIN idx THEN idx[cleanKeyword] ELSE <<>>

\* InvertedIndexBuilder.search
indexSearch(idx, keyword) ==
    LET cleanKeyword == trim(toLowerCase(keyword))
    IN  IF Len(cleanKeyword) = 0 THEN <<>>
        ELSE IF cleanKeyword \in DOMAIN idx THEN idx[cleanKeyword] ELSE <<>>

-----------------------------------------------------------------------------
(* SearchCache *)

CacheKeys(c) == {c[i].key : i \in 1..Len(c)}

CachePos(c, key) == CHOOSE i \in 1..Len(c) : c[i].key = key

\* SearchCache.get: found, the stored results, and the cache after the call
cacheGet(c, keyword) ==
    LET cleanKeyword == trim(toLowerCase(keyword))
    IN  IF cleanKeyword \in CacheKeys(c)
        THEN LET p == CachePos(c, cleanKeyword)
             IN  [found   |-> TRUE,
                  results |-> c[p].results,
                  cache   |-> [c EXCEPT ![p].hitCount = @ + 1]]
        ELSE [found |-> FALSE, results |-> <<>>, cache |-> c]

\* the forEach of SearchCache.set: the position of the first entry whose
\* hitCount is strictly below every earlier one (0 stands for lruKey = null)
RECURSIVE LruScan(_, _, _)
LruScan(c, i, lruPos) ==
    IF i > Len(c) THEN lruPos
    ELSE IF lruPos = 0 \/ c[i].hitCount < c[lruPos].hitCount
         THEN LruScan(c, i + 1, i)
         ELSE LruScan(c, i + 1, lruPos)

RemoveAt(s, p) == SubSeq(s, 1, p - 1) \o SubSeq(s, p + 1, Len(s))

\* Map.prototype.set: a present key keeps its place, a new key goes last
MapSet(c, entry) ==
    IF entry.key \in CacheKeys(c)
    THEN [c EXCEPT ![CachePos(c, entry.key)] = entry]
    ELSE Append(c, entry)

\* the eviction step of SearchCache.set; `if (lruKey)` is false for null
\* and for the empty string
cacheEvict(c, cleanKeyword) ==
    IF Len(c) >= maxSize /\ cleanKeyword \notin CacheKeys(c)
    THEN LET lruPos == LruScan(c, 1, 0)
         IN  IF lruPos # 0 /\ c[lruPos].key # <<>>
             THEN RemoveAt(c, lruPos)
             ELSE c
    ELSE c

\* cacheSet storing under the keyword as typed
cacheSetRawKey(c, keyword, results) ==
    MapSet(cacheEvict(c, keyword),
           [key |-> keyword, results |-> results, hitCount |-> 0])

\* SearchCache.set
cacheSet(c, keyword, results) ==
    LET cleanKeyword == trim(toLowerCase(keyword))
    IN  MapSet(cacheEvict(c, cleanKeyword),
               [key |-> cleanKeyword, results |-> results, hitCount |-> 0])

-----------------------------------------------------------------------------
(* SearchOptimizer *)

\* indexToResults putting each row before those already collected
indexToResultsNewestFirst(indices, d) ==
    LET kept == SelectSeq(indices, LAMBDA i : i >= 0 /\ i < Len(d))
        n == Len(kept)
    IN  [idx |-> [j \in 1..n |-> kept[n + 1 - j]],
         rows |-> [j \in 1..n |-> d[kept[n + 1 - j] + 1]]]

\* SearchOptimizer.indexToResults: the indices kept and the rows pushed
indexToResults(indices, d) ==
    LET kept == SelectSeq(indices, LAMBDA i : i >= 0 /\ i < Len(d))
    IN  [idx |-> kept, rows |-> [j \in 1..Len(kept) |-> d[kept[j] + 1]]]

\* rowContains comparing without case folding
rowContainsCaseSensitive(row, cols, keyword) ==
    \E c \in 1..Len(cols) :
        includes(StringOrEmpty(Field(row, cols[c])), keyword)

\* SearchOptimizer.rowContains
rowContains(row, cols, keyword) ==
    \E c \in 1..Len(cols) :
        includes(toLowerCase(StringOrEmpty(Field(row, cols[c]))), keyword)

\* the rows of this.data a call read (by their indices) and whether it
\* called indexBuilder.search
Touched(rows, idx) == [rows |-> rows, index |-> idx]

Returned(res, source, isIncremental) ==
    [idx |-> res.idx, rows |-> res.rows, source |-> source,
     isIncremental |-> isIncremental, error |-> "none"]

\* search that does not store the index result
searchNoStore(c, idx, d, keyword) ==
    LET got == cacheGet(c, keyword)
    IN  IF got.found
        THEN [cache |-> got.cache,
              ret   |-> Returned(indexToResults(got.results, d), "cache", "unset"),
              index |-> idx,
              touched |-> Touched(Range(indexToResults(got.results, d).idx), FALSE)]
        ELSE LET indexResults == indexSearch(idx, keyword)
             IN  [cache |-> got.cache,
                  ret   |-> Returned(indexToResults(indexResults, d), "index", "unset"),
                  index |-> idx,
                  touched |-> Touched(Range(indexToResults(indexResults, d).idx), TRUE)]

\* search entering a keyword it does not find into the index, with no rows
searchIndexingKeyword(c, idx, d, keyword) ==
    LET got == cacheGet(c, keyword)
        cleanKeyword == trim(toLowerCase(keyword))
    IN  IF got.found
        THEN [cache |-> got.cache,
              ret   |-> Returned(indexToResults(got.results, d), "cache", "unset"),
              index |-> idx,
              touched |-> Touched(Range(indexToResults(got.results, d).idx), FALSE)]
        ELSE LET indexResults == indexSearch(idx, keyword)
             IN  [cache |-> cacheSet(got.cache, keyword, indexResults),
                  ret   |-> Returned(indexToResults(indexResults, d), "index", "unset"),
                  index |-> IF cleanKeyword \in DOMAIN idx THEN idx
                            ELSE [tok \in (DOMAIN idx) \cup {cleanKeyword} |->
                                     IF tok \in DOMAIN idx THEN idx[tok] ELSE <<>>],
                  touched |-> Touched(Range(indexToResults(indexResults, d).idx), TRUE)]

\* SearchOptimizer.search: the cache and the index after the call, and the
\* returned object
search(c, idx, d, keyword) ==
    LET got == cacheGet(c, keyword)
    IN  IF got.found
        THEN [cache |-> got.cache,
              ret   |-> Returned(indexToResults(got.results, d), "cache", "unset"),
              index |-> idx,
              touched |-> Touched(Range(indexToResults(got.results, d).idx), FALSE)]
        ELSE LET indexResults == indexSearch(idx, keyword)
             IN  [cache |-> cacheSet(got.cache, keyword, indexResults),
                  ret   |-> Returned(indexToResults(indexResults, d), "index", "unset"),
                  index |-> idx,
                  touched |-> Touched(Range(indexToResults(indexResults, d).idx), TRUE)]

\* {...this.search(newKeyword), isIncremental: false}
fullSearch(c, idx, d, keyword) ==
    LET r == search(c, idx, d, keyword)
    IN  [cache |-> r.cache, ret |-> [r.ret EXCEPT !.isIncremental = "false"],
         index |-> r.index, touched |-> r.touched]

\* incrementalSearch without the check that the previous keyword is non-empty
incrementalSearchNoEmptyCheck(c, idx, d, cols, prevKeyword, newKeyword) ==
    LET cleanPrev == trim(toLowerCase(prevKeyword))
        cleanNew  == trim(toLowerCase(newKeyword))
    IN  IF ~startsWith(cleanNew, cleanPrev)
        THEN fullSearch(c, idx, d, newKeyword)
        ELSE LET got == cacheGet(c, prevKeyword)
             IN  IF ~got.found
                 THEN fullSearch(got.cache, idx, d, newKeyword)
                 ELSE LET newResults ==
                              SelectSeq(got.results,
                                  LAMBDA rowIndex : rowContains(d[rowIndex + 1], cols, cleanNew))
                      IN  [cache |-> cacheSet(got.cache, newKeyword, newResults),
                           ret   |-> Returned(indexToResults(newResults, d), "unset", "true"),
                           index |-> idx,
                           touched |-> Touched(Range(got.results), FALSE)]

\* incrementalSearch scanning every row of the dataset for the new keyword
incrementalSearchFullScan(c, idx, d, cols, prevKeyword, newKeyword) ==
    LET cleanPrev == trim(toLowerCase(prevKeyword))
        cleanNew  == trim(toLowerCase(newKeyword))
    IN  IF ~startsWith(cleanNew, cleanPrev) \/ Len(cleanPrev) = 0
        THEN fullSearch(c, idx, d, newKeyword)
        ELSE LET got == cacheGet(c, prevKeyword)
             IN  IF ~got.found
                 THEN fullSearch(got.cache, idx, d, newKeyword)
                 ELSE LET newResults ==
                              SelectSeq([i \in 1..Len(d) |-> i - 1],
                                  LAMBDA rowIndex : rowContains(d[rowIndex + 1], cols, cleanNew))
                      IN  [cache |-> cacheSet(got.cache, newKeyword, newResults),
                           ret   |-> Returned(indexToResults(newResults, d), "unset", "true"),
                           index |-> idx,
                           touched |-> Touched(0..(Len(d) - 1), FALSE)]

\* SearchOptimizer.incrementalSearch
incrementalSearch(c, idx, d, cols, prevKeyword, newKeyword) ==
    LET cleanPrev == trim(toLowerCase(prevKeyword))
        cleanNew  == trim(toLowerCase(newKeyword))
    IN  IF ~startsWith(cleanNew, cleanPrev) \/ Len(cleanPrev) = 0
        THEN fullSearch(c, idx, d, newKeyword)
        ELSE LET got == cacheGet(c, prevKeyword)
             IN  IF ~got.found
                 THEN fullSearch(got.cache, idx, d, newKeyword)
                 ELSE IF Len(cols) > 0 /\ \E j \in 1..Len(got.results) :
                                             got.results[j] >= Len(d)
                 THEN \* this.data[rowIndex] is undefined: row[col.key] throws
                      [cache |-> got.cache,
                       ret   |-> [idx |-> <<>>, rows |-> <<>>, source |-> "unset",
                                  isIncremental |-> "unset", error |-> "TypeError"],
                       index |-> idx,
                       touched |-> Touched(Range(got.results), FALSE)]
                 ELSE LET newResults ==
                              SelectSeq(got.results,
                                  LAMBDA rowIndex : rowContains(d[rowIndex + 1], cols, cleanNew))
                      IN  [cache |-> cacheSet(got.cache, newKeyword, newResults),
                           ret   |-> Returned(indexToResults(newResults, d), "unset", "true"),
                           index |-> idx,
                           touched |-> Touched(Range(got.results), FALSE)]

-----------------------------------------------------------------------------
(* FilterCondition, CompositeFilter *)

IsDigit(c) == c \in {"0", "1", "2", "3", "4", "5", "6", "7", "8", "9"}

DigitValue(c) == CHOOSE d \in 0..9 : DigitChar(d) = c

RECURSIVE DigitsValue(_, _)
DigitsValue(s, acc) ==
    IF s = <<>> \/ ~IsDigit(Head(s)) THEN acc
    ELSE DigitsValue(Tail(s), 10 * acc + DigitValue(Head(s)))

RECURSIVE SkipBlanks(_)
SkipBlanks(s) == IF s # <<>> /\ Head(s) = " " THEN SkipBlanks(Tail(s)) ELSE s

NaN == [nan |-> TRUE, n |-> 0]
Number(n) == [nan |-> FALSE, n |-> n]

\* parseFloat of a string: leading blanks, an optional sign, then the longest
\* run of digits; NaN when there is no digit there (the strings of the model
\* hold no '.', no exponent and no "Infinity")
ParseFloatString(s) ==
    LET t == SkipBlanks(s)
        signed == t # <<>> /\ Head(t) \in {"-", "+"}
        body == IF signed THEN Tail(t) ELSE t
    IN  IF body = <<>> \/ ~IsDigit(Head(body)) THEN NaN
        ELSE IF signed /\ Head(t) = "-" THEN Number(-DigitsValue(body, 0))
        ELSE Number(DigitsValue(body, 0))

\* parseFloat(v): v is first turned into a string ("undefined" for undefined)
parseFloat(v) ==
    CASE v.t = "num"   -> Number(v.n)
      [] v.t = "str"   -> ParseFloatString(v.s)
      [] OTHER         -> NaN

\* new Date(v).getTime(): a number is its own time value; undefined gives an
\* Invalid Date (the rows of the model hold no date strings)
DateOf(v) == IF v.t = "num" THEN Number(v.n) ELSE NaN

\* <= taking NaN for 0
NumLENaNAsZero(a, b) == a.n <= b.n

\* a comparison with NaN on either side is false
NumGE(a, b) == ~a.nan /\ ~b.nan /\ a.n >= b.n
NumLE(a, b) == ~a.nan /\ ~b.nan /\ a.n <= b.n
NumGT(a, b) == ~a.nan /\ ~b.nan /\ a.n > b.n
NumLT(a, b) == ~a.nan /\ ~b.nan /\ a.n < b.n

\* String(v) as used by 'contains'
ToStringValue(v) ==
    CASE v.t = "undef" -> <<"u", "n", "d", "e", "f", "i", "n", "e", "d">>
      [] v.t = "num"   -> NumToString(v.n)
      [] v.t = "str"   -> v.s

\* ToNumber of the right-hand side of a comparison with a number: the whole
\* trimmed string must be a number ('' is 0), undefined is NaN
ToNumber(v) ==
    CASE v.t = "num" -> Number(v.n)
      [] v.t = "str" ->
            LET t == trim(v.s)
                signed == t # <<>> /\ Head(t) \in {"-", "+"}
                body == IF signed THEN Tail(t) ELSE t
            IN  IF t = <<>> THEN Number(0)
                ELSE IF body = <<>> \/ \E i \in 1..Len(body) : ~IsDigit(body[i]) THEN NaN
                ELSE IF signed /\ Head(t) = "-" THEN Number(-DigitsValue(body, 0))
                ELSE Number(DigitsValue(body, 0))
      [] OTHER -> NaN

\* the k-th variable of the destructuring `const [a, b] = this.value`: an
\* array gives its elements, a string its characters, undefined beyond the end
Elem(v, k) ==
    CASE v.t = "arr" -> IF k <= Len(v.a) THEN v.a[k] ELSE Undef
      [] v.t = "str" -> IF k <= Len(v.s) THEN Str(<<v.s[k]>>) ELSE Undef
      [] OTHER -> Undef

\* FilterCondition.matches raises a TypeError: the destructuring of a value
\* that is not iterable (a number, undefined)
conditionThrows(cond, row) ==
    /\ cond.operator \in {"between", "date-between"}
    /\ cond.value.t \notin {"arr", "str"}

\* FilterCondition.matches with `default: return false`
conditionMatchesDefaultFalse(cond, row) ==
    LET rowValue == Field(row, cond.field)
    IN  CASE cond.operator = "eq" -> rowValue = cond.value
          [] cond.operator = "contains" ->
                includes(toLowerCase(StringOrEmpty(rowValue)),
                         toLowerCase(ToStringValue(cond.value)))
          [] cond.operator = "gt"  -> NumGT(parseFloat(rowValue), parseFloat(cond.value))
          [] cond.operator = "gte" -> NumGE(parseFloat(rowValue), parseFloat(cond.value))
          [] cond.operator = "lt"  -> NumLT(parseFloat(rowValue), parseFloat(cond.value))
          [] cond.operator = "lte" -> NumLE(parseFloat(rowValue), parseFloat(cond.value))
          [] cond.operator = "between" ->
                /\ ~conditionThrows(cond, row)
                /\ NumGE(parseFloat(rowValue), ToNumber(Elem(cond.value, 1)))
                /\ NumLE(parseFloat(rowValue), ToNumber(Elem(cond.value, 2)))
          [] cond.operator = "in" ->
                cond.value.t = "arr" /\ rowValue \in Range(cond.value.a)
          [] cond.operator = "date-between" ->
                /\ ~conditionThrows(cond, row)
                /\ NumGE(DateOf(rowValue), ToNumber(Elem(cond.value, 1)))
                /\ NumLE(DateOf(rowValue), ToNumber(Elem(cond.value, 2)))
          [] OTHER -> FALSE

\* FilterCondition.matches: the boolean returned when it raises no error
conditionMatches(cond, row) ==
    LET rowValue == Field(row, cond.field)
    IN  CASE cond.operator = "eq" -> rowValue = cond.value
          [] cond.operator = "contains" ->
                includes(toLowerCase(StringOrEmpty(rowValue)),
                         toLowerCase(ToStringValue(cond.value)))
          [] cond.operator = "gt"  -> NumGT(parseFloat(rowValue), parseFloat(cond.value))
          [] cond.operator = "gte" -> NumGE(parseFloat(rowValue), parseFloat(cond.value))
          [] cond.operator = "lt"  -> NumLT(parseFloat(rowValue), parseFloat(cond.value))
          [] cond.operator = "lte" -> NumLE(parseFloat(rowValue), parseFloat(cond.value))
          [] cond.operator = "between" ->
                /\ ~conditionThrows(cond, row)
                /\ NumGE(parseFloat(rowValue), ToNumber(Elem(cond.value, 1)))
                /\ NumLE(parseFloat(rowValue), ToNumber(Elem(cond.value, 2)))
          [] cond.operator = "in" ->
                cond.value.t = "arr" /\ rowValue \in Range(cond.value.a)
          [] cond.operator = "date-between" ->
                /\ ~conditionThrows(cond, row)
                /\ NumGE(DateOf(rowValue), ToNumber(Elem(cond.value, 1)))
                /\ NumLE(DateOf(rowValue), ToNumber(Elem(cond.value, 2)))
          [] OTHER -> TRUE

\* the index of the first condition the row fails under AND (0: none), i.e.
\* where the loop of CompositeFilter.matches returns false
RECURSIVE FirstFailing(_, _, _)
FirstFailing(conds, row, i) ==
    IF i > Len(conds) THEN 0
    ELSE IF ~conditionMatches(conds[i], row) THEN i
    ELSE FirstFailing(conds, row, i + 1)

\* CompositeFilter.matches raises: the loop reaches a condition whose
\* matches raises (under AND every earlier one held, under OR none did)
compositeThrows(conds, lg, row) ==
    \E i \in 1..Len(conds) :
        /\ conditionThrows(conds[i], row)
        /\ \A j \in 1..(i - 1) :
              /\ ~conditionThrows(conds[j], row)
              /\ conditionMatches(conds[j], row) <=> (lg = "AND")

\* the index of the first condition the row satisfies under OR (0: none),
\* i.e. where the second loop of CompositeFilter.matches returns true
RECURSIVE FirstMatching(_, _, _)
FirstMatching(conds, row, i) ==
    IF i > Len(conds) THEN 0
    ELSE IF conditionMatches(conds[i], row) THEN i
    ELSE FirstMatching(conds, row, i + 1)

\* CompositeFilter.matches leaving stats.shortCircuits alone
compositeMatchesNoCount(conds, lg, row) ==
    IF Len(conds) = 0 THEN [result |-> TRUE, evaluations |-> 1, shortCircuits |-> 0]
    ELSE IF lg = "AND"
    THEN [result |-> FirstFailing(conds, row, 1) = 0, evaluations |-> 1, shortCircuits |-> 0]
    ELSE [result |-> FirstMatching(conds, row, 1) # 0,
          evaluations |-> 1, shortCircuits |-> 0]

\* CompositeFilter.matches counting a short circuit when OR finds no match
compositeMatchesOrCounts(conds, lg, row) ==
    IF Len(conds) = 0 THEN [result |-> TRUE, evaluations |-> 1, shortCircuits |-> 0]
    ELSE IF lg = "AND"
    THEN IF FirstFailing(conds, row, 1) # 0
         THEN [result |-> FALSE, evaluations |-> 1, shortCircuits |-> 1]
         ELSE [result |-> TRUE, evaluations |-> 1, shortCircuits |-> 0]
    ELSE IF FirstMatching(conds, row, 1) # 0
         THEN [result |-> TRUE, evaluations |-> 1, shortCircuits |-> 0]
         ELSE [result |-> FALSE, evaluations |-> 1, shortCircuits |-> 1]

\* CompositeFilter.matches counting one short circuit per failing condition
compositeMatchesCountAllFailing(conds, lg, row) ==
    IF Len(conds) = 0 THEN [result |-> TRUE, evaluations |-> 1, shortCircuits |-> 0]
    ELSE IF lg = "AND"
    THEN [result |-> FirstFailing(conds, row, 1) = 0, evaluations |-> 1,
          shortCircuits |->
              Cardinality({i \in 1..Len(conds) : ~conditionMatches(conds[i], row)})]
    ELSE [result |-> FirstMatching(conds, row, 1) # 0,
          evaluations |-> 1, shortCircuits |-> 0]

\* CompositeFilter.matches deciding on the first condition alone
compositeMatchesFirstOnly(conds, lg, row) ==
    IF Len(conds) = 0 THEN [result |-> TRUE, evaluations |-> 1, shortCircuits |-> 0]
    ELSE IF conditionMatches(conds[1], row)
         THEN [result |-> TRUE, evaluations |-> 1, shortCircuits |-> 0]
         ELSE [result |-> FALSE, evaluations |-> 1,
               shortCircuits |-> IF lg = "AND" THEN 1 ELSE 0]

\* CompositeFilter.matches: the boolean returned and what it adds to
\* stats.evaluations and stats.shortCircuits
compositeMatches(conds, lg, row) ==
    IF Len(conds) = 0 THEN [result |-> TRUE, evaluations |-> 1, shortCircuits |-> 0]
    ELSE IF lg = "AND"
    THEN IF FirstFailing(conds, row, 1) # 0
         THEN [result |-> FALSE, evaluations |-> 1, shortCircuits |-> 1]
         ELSE [result |-> TRUE, evaluations |-> 1, shortCircuits |-> 0]
    ELSE [result |-> FirstMatching(conds, row, 1) # 0,
          evaluations |-> 1, shortCircuits |-> 0]

-----------------------------------------------------------------------------
(* AdvancedFilter *)

FieldsOf(m) == {m[i].field : i \in 1..Len(m)}

FieldPos(m, field) == CHOOSE i \in 1..Len(m) : m[i].field = field

\* Map.prototype.set on a map keyed by field
MapPut(m, entry) ==
    IF entry.field \in FieldsOf(m)
    THEN [m EXCEPT ![FieldPos(m, entry.field)] = entry]
    ELSE Append(m, entry)

\* the characters of a model string joined into one string
RECURSIVE Join(_)
Join(s) == IF s = <<>> THEN "" ELSE Head(s) \o Join(Tail(s))

\* JSON.stringify of a scalar value
JsonScalar(v) ==
    CASE v.t = "num"   -> Join(NumToString(v.n))
      [] v.t = "str"   -> "\"" \o Join(v.s) \o "\""
      [] OTHER         -> "undefined"

RECURSIVE JsonItems(_)
JsonItems(a) ==
    IF a = <<>> THEN ""
    ELSE IF Len(a) = 1 THEN JsonScalar(a[1])
    ELSE JsonScalar(a[1]) \o "," \o JsonItems(Tail(a))

\* JSON.stringify of an array of scalars
JsonArray(a) == "[" \o JsonItems(a) \o "]"

\* Array.prototype.join('|')
RECURSIVE JoinBar(_)
JoinBar(parts) ==
    IF parts = <<>> THEN ""
    ELSE IF Len(parts) = 1 THEN parts[1]
    ELSE parts[1] \o "|" \o JoinBar(Tail(parts))

\* AdvancedFilter.generateCacheKey
generateCacheKey(conds, cf, dr, nr) ==
    JoinBar(
        [i \in 1..Len(conds) |->
            conds[i].field \o ":" \o conds[i].operator \o ":" \o JsonScalar(conds[i].value)]
        \o [i \in 1..Len(cf) |-> cf[i].field \o ":in:" \o JsonArray(cf[i].values)]
        \o [i \in 1..Len(dr) |->
            dr[i].field \o ":date-between:" \o Join(NumToString(dr[i].start))
                \o "-" \o Join(NumToString(dr[i].end))]
        \o [i \in 1..Len(nr) |->
            nr[i].field \o ":numeric:" \o Join(NumToString(nr[i].min))
                \o "-" \o Join(NumToString(nr[i].max))])

\* the callback of one columnFilters.forEach iteration
columnStage(rows, f) ==
    SelectSeq(rows, LAMBDA row : Field(row, f.field) \in Range(f.values))

\* the callback of one dateRanges.forEach iteration
dateStage(rows, f) ==
    SelectSeq(rows, LAMBDA row :
        /\ NumGE(DateOf(Field(row, f.field)), Number(f.start))
        /\ NumLE(DateOf(Field(row, f.field)), Number(f.end)))

\* numericStage with the upper bound excluded
numericStageExclusive(rows, f) ==
    SelectSeq(rows, LAMBDA row :
        LET value == parseFloat(Field(row, f.field))
        IN  ~value.nan /\ value.n >= f.min /\ value.n < f.max)

\* the callback of one numericRanges.forEach iteration
numericStage(rows, f) ==
    SelectSeq(rows, LAMBDA row :
        LET value == parseFloat(Field(row, f.field))
        IN  ~value.nan /\ value.n >= f.min /\ value.n <= f.max)

\* the column stage applying the first column filter only
ColumnStagesFirstOnly(rows, cf) ==
    IF cf = <<>> THEN rows ELSE columnStage(rows, Head(cf))

RECURSIVE ColumnStages(_, _)
ColumnStages(rows, cf) ==
    IF cf = <<>> THEN rows ELSE ColumnStages(columnStage(rows, Head(cf)), Tail(cf))

RECURSIVE DateStages(_, _)
DateStages(rows, dr) ==
    IF dr = <<>> THEN rows ELSE DateStages(dateStage(rows, Head(dr)), Tail(dr))

RECURSIVE NumericStages(_, _)
NumericStages(rows, nr) ==
    IF nr = <<>> THEN rows ELSE NumericStages(numericStage(rows, Head(nr)), Tail(nr))

\* results.filter(row => this.compositeFilter.matches(row)), run only when
\* there are conditions: the rows kept and the counter increments
compositeStage(rows, conds, lg) ==
    IF Len(conds) = 0
    THEN [rows |-> rows, evaluations |-> 0, shortCircuits |-> 0]
    ELSE [rows |-> SelectSeq(rows, LAMBDA row : compositeMatches(conds, lg, row).result),
          evaluations |-> Len(rows),
          shortCircuits |->
              Cardinality({i \in 1..Len(rows) :
                              compositeMatches(conds, lg, rows[i]).shortCircuits = 1})]

\* the position in rows of the first row on which compositeFilter.matches
\* raises during the pass (0: none)
RECURSIVE FirstThrowing(_, _, _, _)
FirstThrowing(rows, conds, lg, i) ==
    IF i > Len(rows) THEN 0
    ELSE IF compositeThrows(conds, lg, rows[i]) THEN i
    ELSE FirstThrowing(rows, conds, lg, i + 1)

\* the pass raises: there are conditions and matches raises on some row
compositeStageThrows(rows, conds, lg) ==
    Len(conds) > 0 /\ FirstThrowing(rows, conds, lg, 1) # 0

\* what the pass added to the counters when it raised: one evaluation per
\* row up to the raising one, one short circuit per row rejected before it
compositeStageUntilThrow(rows, conds, lg) ==
    LET k == FirstThrowing(rows, conds, lg, 1)
    IN  [evaluations |-> k,
         shortCircuits |->
             Cardinality({i \in 1..(k - 1) :
                             compositeMatches(conds, lg, rows[i]).shortCircuits = 1})]

\* the four passes of AdvancedFilter.filter on a cache miss
filterPipeline(rows, conds, lg, cf, dr, nr) ==
    LET first == compositeStage(rows, conds, lg)
    IN  [rows |-> NumericStages(DateStages(ColumnStages(first.rows, cf), dr), nr),
         evaluations |-> first.evaluations,
         shortCircuits |-> first.shortCircuits]

ResultKeys(fr) == {fr[i].key : i \in 1..Len(fr)}

ResultPos(fr, key) == CHOOSE i \in 1..Len(fr) : fr[i].key = key

\* the store evicting the entry inserted just before the new one
filterResultsStoreEvictLast(fr, entry) ==
    LET stored == Append(fr, entry)
    IN  IF Len(stored) > FilterCacheMax THEN RemoveAt(stored, Len(stored) - 1) ELSE stored

\* filterResults.set(cacheKey, result), then the size check of filter
filterResultsStore(fr, entry) ==
    LET stored == IF entry.key \in ResultKeys(fr)
                  THEN [fr EXCEPT ![ResultPos(fr, entry.key)] = entry]
                  ELSE Append(fr, entry)
    IN  IF Len(stored) > FilterCacheMax THEN Tail(stored) ELSE stored

\* the constraints that are active, whatever the order they were added in
\* (each condition with the number of times it is in the list)
ActiveSet(conds, cf, dr, nr) ==
    [conditions |-> [c \in Range(conds) |->
                        Cardinality({i \in 1..Len(conds) : conds[i] = c})],
     columnFilters |-> Range(cf),
     dateRanges |-> Range(dr), numericRanges |-> Range(nr)]

-----------------------------------------------------------------------------
(* Inputs *)

S_blank == <<" ">>
S_A     == <<"A">>
S_A1    == <<"A", "1", " ">>
S_a5    == <<"a", "a", "a", "a", "a">>

Keywords == {S_blank, S_A, S_A1, S_a5}

\* the dataset of the specification's concrete scenarios
RowsScenario ==
    << [code |-> Str(<<"A", "1">>), points |-> Num(100)],
       [code |-> Str(<<"A", "2">>), points |-> Num(200)],
       [code |-> Str(<<"B", "1">>), points |-> Num(150)] >>

\* values longer than the widest n-gram
RowsLong ==
    << [code |-> Str(<<"a", "a", "a", "a", "a", "a">>), points |-> Num(0)],
       [code |-> Str(<<" ", "A", "a", "a", "a", "a">>)] >>

Datasets == {RowsScenario, RowsLong, <<>>}

ColumnKeys == <<"code", "points">>

\* the rows handed to AdvancedFilter.filter: the scenario rows with a date
\* each, then a row without points and date and a row whose points is a
\* numeric string
RowsFilter ==
    << [code |-> Str(<<"A", "1">>), points |-> Num(100), date |-> Num(10)],
       [code |-> Str(<<"A", "2">>), points |-> Num(200), date |-> Num(15)],
       [code |-> Str(<<"B", "1">>), points |-> Num(150), date |-> Num(30)],
       [code |-> Str(<<"a", "4">>)],
       [code |-> Str(<<"B", "1">>), points |-> Str(<<"1", "2", "0", "x">>), date |-> Num(20)],
       [code |-> Str(<<"A", "1">>), points |-> Str(<<"x", "1">>), date |-> Num(15)] >>

\* the conditions of scenario 2: points gte 120, code contains "A"
CondPoints == [field |-> "points", operator |-> "gte", value |-> Num(120)]
CondCode   == [field |-> "code", operator |-> "contains", value |-> Str(<<"A">>)]

ConditionInputs == {CondPoints, CondCode}

ColumnFilterInputs ==
    {[field |-> "code", values |-> <<Str(<<"A", "1">>), Str(<<"B", "1">>)>>],
     [field |-> "points", values |-> <<Num(100), Num(150), Num(120)>>]}

DateRangeInputs == {[field |-> "date", start |-> 10, end |-> 20]}

\* scenario 3: points in [100, 150]; the second range reads the date field
\* as a number
NumericRangeInputs ==
    {[field |-> "points", min |-> 100, max |-> 150],
     [field |-> "date", min |-> 15, max |-> 30]}

NoCall == [op |-> "none", prev |-> <<>>, kw |-> <<>>, repeat |-> FALSE]
NoRet  == [idx |-> <<>>, rows |-> <<>>, source |-> "unset",
           isIncremental |-> "unset", error |-> "none"]

RECURSIVE TotalHits(_)
TotalHits(c) == IF c = <<>> THEN 0 ELSE c[1].hitCount + TotalHits(Tail(c))

HitsBounded(c) == TotalHits(c) <= MaxHits

NoFilterCall == [op |-> "none", rows |-> <<>>, evicted |-> <<>>]
NoFilterRet  == [results |-> <<>>, count |-> 0, hit |-> FALSE, key |-> "",
                 error |-> "none"]

\* new AdvancedFilter()
FreshFilter ==
    /\ conditions = <<>>
    /\ logic = "AND"
    /\ evaluations = 0
    /\ shortCircuits = 0
    /\ columnFilters = <<>>
    /\ dateRanges = <<>>
    /\ numericRanges = <<>>
    /\ filterResults = <<>>
    /\ cacheHits = 0
    /\ fcall = NoFilterCall
    /\ fret = NoFilterRet

\* new SearchOptimizer()
FreshSearch ==
    /\ data = <<>>
    /\ columns = <<>>
    /\ index = <<>>
    /\ cache = <<>>
    /\ call = NoCall
    /\ ret = NoRet
    /\ touched = Touched({}, FALSE)

\* no single method has been called
FreshProbe ==
    /\ probe = [op |-> "none"]
    /\ result = [value |-> <<>>, error |-> "none"]

\* filteredData is an array nothing else holds ([...this.data], the array
\* indexToResults built) or the results array of the cache entry under key
OwnArray == [cached |-> FALSE, key |-> ""]
CachedArray(key) == [cached |-> TRUE, key |-> key]

\* new TableRenderer()
FreshRender ==
    /\ filteredData = <<>>
    /\ lastSearchKeyword = <<>>
    /\ useOptimizedSearch = TRUE
    /\ sortColumn = "none"
    /\ sortDirection = "asc"
    /\ filteredAlias = OwnArray

\* new FilterUIManager() with no box checked; new FilterHistory(historyMaxSize)
FreshUx ==
    /\ checked = {}
    /\ activeFilters = <<>>
    /\ history = <<>>
    /\ currentIndex = -1

-----------------------------------------------------------------------------
(* The SearchOptimizer as a state machine *)

\* new SearchOptimizer(); initialize(rows, columns)
InitSearch ==
    /\ data \in Datasets
    /\ columns = ColumnKeys
    /\ index = build(data, columns)
    /\ cache = <<>>
    /\ call = NoCall
    /\ ret = NoRet
    /\ touched = Touched({}, FALSE)
    /\ FreshFilter
    /\ FreshProbe
    /\ FreshRender
    /\ FreshUx

Search(keyword) ==
    LET r == search(cache, index, data, keyword)
    IN  /\ HitsBounded(r.cache)
        /\ cache' = r.cache
        /\ ret' = r.ret
        /\ index' = r.index
        /\ touched' = r.touched
        /\ call' = [op |-> "search", prev |-> <<>>, kw |-> keyword,
                    repeat |-> call.op = "search" /\ call.kw = keyword]
        /\ UNCHANGED <<data, columns, filterVars, probeVars, renderVars, uxVars>>

IncrementalSearch(prevKeyword, newKeyword) ==
    LET r == incrementalSearch(cache, index, data, columns, prevKeyword, newKeyword)
    IN  /\ HitsBounded(r.cache)
        /\ cache' = r.cache
        /\ ret' = r.ret
        /\ index' = r.index
        /\ touched' = r.touched
        /\ call' = [op |-> "incrementalSearch", prev |-> prevKeyword,
                    kw |-> newKeyword, repeat |-> FALSE]
        /\ UNCHANGED <<data, columns, filterVars, probeVars, renderVars, uxVars>>

DoSearch == \E k \in Keywords : Search(k)

DoIncrementalSearch == \E p \in Keywords, k \in Keywords : IncrementalSearch(p, k)

NextSearch == DoSearch \/ DoIncrementalSearch

SpecSearch == InitSearch /\ [][NextSearch]_vars

-----------------------------------------------------------------------------
(* The SearchOptimizer whose dataset is replaced: initialize called again,
   as TableRenderer.setData does on every new table *)

\* SearchOptimizer.initialize(rows, columns) on the live optimizer: data and
\* columns are assigned and the index rebuilt; searchCache is not touched
Initialize(rows) ==
    /\ data' = rows
    /\ columns' = ColumnKeys
    /\ index' = rebuild(index, rows, ColumnKeys)
    /\ call' = [op |-> "initialize", prev |-> <<>>, kw |-> <<>>, repeat |-> FALSE]
    /\ ret' = NoRet
    /\ touched' = Touched({}, FALSE)
    /\ UNCHANGED <<cache, filterVars, probeVars, renderVars, uxVars>>

DoInitialize == \E rows \in Datasets : Initialize(rows)

NextInitialize == DoInitialize \/ DoSearch \/ DoIncrementalSearch

SpecInitialize == InitSearch /\ [][NextInitialize]_vars

-----------------------------------------------------------------------------
(* The AdvancedFilter as a state machine *)

InitFilter == FreshSearch /\ FreshFilter /\ FreshProbe /\ FreshRender /\ FreshUx

\* the add/remove/clear methods return `this`
Called(op) ==
    /\ fcall' = [op |-> op, rows |-> <<>>, evicted |-> <<>>]
    /\ fret' = NoFilterRet

\* AdvancedFilter.addCondition -> CompositeFilter.addCondition
AddCondition(cond) ==
    /\ Len(conditions) < MaxConds
    /\ conditions' = Append(conditions, cond)
    /\ Called("addCondition")
    /\ UNCHANGED <<logic, evaluations, shortCircuits, columnFilters, dateRanges,
                   numericRanges, filterResults, cacheHits, searchVars, probeVars, renderVars, uxVars>>

\* CompositeFilter.removeCondition on AdvancedFilter.compositeFilter
RemoveCondition(i) ==
    /\ conditions' = IF i >= 0 /\ i < Len(conditions)
                     THEN RemoveAt(conditions, i + 1)
                     ELSE conditions
    /\ Called("removeCondition")
    /\ UNCHANGED <<logic, evaluations, shortCircuits, columnFilters, dateRanges,
                   numericRanges, filterResults, cacheHits, searchVars, probeVars, renderVars, uxVars>>

\* AdvancedFilter.addColumnFilter
AddColumnFilter(f) ==
    /\ columnFilters' = IF Len(f.values) > 0 THEN MapPut(columnFilters, f)
                        ELSE columnFilters
    /\ Called("addColumnFilter")
    /\ UNCHANGED <<conditions, logic, evaluations, shortCircuits, dateRanges,
                   numericRanges, filterResults, cacheHits, searchVars, probeVars, renderVars, uxVars>>

\* AdvancedFilter.addDateRange
AddDateRange(f) ==
    /\ dateRanges' = MapPut(dateRanges, f)
    /\ Called("addDateRange")
    /\ UNCHANGED <<conditions, logic, evaluations, shortCircuits, columnFilters,
                   numericRanges, filterResults, cacheHits, searchVars, probeVars, renderVars, uxVars>>

\* AdvancedFilter.addNumericRange
AddNumericRange(f) ==
    /\ numericRanges' = MapPut(numericRanges, f)
    /\ Called("addNumericRange")
    /\ UNCHANGED <<conditions, logic, evaluations, shortCircuits, columnFilters,
                   dateRanges, filterResults, cacheHits, searchVars, probeVars, renderVars, uxVars>>

\* a cache-hit return that runs the composite pass before returning
FilterHitAfterPass(rows) ==
    LET cacheKey == generateCacheKey(conditions, columnFilters, dateRanges, numericRanges)
        out == compositeStage(rows, conditions, logic)
    IN  /\ cacheKey \in ResultKeys(filterResults)
        /\ cacheHits < MaxCacheHits
        /\ cacheHits' = cacheHits + 1
        /\ evaluations' = evaluations + out.evaluations
        /\ shortCircuits' = shortCircuits + out.shortCircuits
        /\ fret' = [results |-> filterResults[ResultPos(filterResults, cacheKey)].results,
                    count   |-> filterResults[ResultPos(filterResults, cacheKey)].count,
                    hit |-> TRUE, key |-> cacheKey, error |-> "none"]
        /\ fcall' = [op |-> "filter", rows |-> rows, evicted |-> <<>>]
        /\ filterResults' =
              [filterResults EXCEPT ![ResultPos(filterResults, cacheKey)].served = @ + 1]
        /\ UNCHANGED <<conditions, logic, columnFilters, dateRanges, numericRanges,
                       searchVars, probeVars, renderVars, uxVars>>

\* AdvancedFilter.filter, the cache-hit return
FilterHit(rows) ==
    LET cacheKey == generateCacheKey(conditions, columnFilters, dateRanges, numericRanges)
    IN  /\ cacheKey \in ResultKeys(filterResults)
        /\ cacheHits < MaxCacheHits
        /\ cacheHits' = cacheHits + 1
        /\ fret' = [results |-> filterResults[ResultPos(filterResults, cacheKey)].results,
                    count   |-> filterResults[ResultPos(filterResults, cacheKey)].count,
                    hit |-> TRUE, key |-> cacheKey, error |-> "none"]
        /\ fcall' = [op |-> "filter", rows |-> rows, evicted |-> <<>>]
        \* history only: the hits an entry has served
        /\ filterResults' =
              [filterResults EXCEPT ![ResultPos(filterResults, cacheKey)].served = @ + 1]
        /\ UNCHANGED <<conditions, logic, evaluations, shortCircuits, columnFilters,
                       dateRanges, numericRanges, searchVars, probeVars, renderVars, uxVars>>

\* AdvancedFilter.filter, the four passes and the store
FilterMiss(rows) ==
    LET cacheKey == generateCacheKey(conditions, columnFilters, dateRanges, numericRanges)
        out == filterPipeline(rows, conditions, logic, columnFilters, dateRanges,
                              numericRanges)
        \* `active` and `served` are history, not fields of the stored object
        entry == [key |-> cacheKey, results |-> out.rows, count |-> Len(out.rows),
                  active |-> ActiveSet(conditions, columnFilters, dateRanges,
                                       numericRanges),
                  served |-> 0]
        stored == filterResultsStore(filterResults, entry)
    IN  /\ cacheKey \notin ResultKeys(filterResults)
        /\ ~compositeStageThrows(rows, conditions, logic)
        /\ evaluations + out.evaluations <= MaxEvaluations
        /\ evaluations' = evaluations + out.evaluations
        /\ shortCircuits' = shortCircuits + out.shortCircuits
        /\ filterResults' = stored
        /\ fret' = [results |-> out.rows, count |-> Len(out.rows),
                    hit |-> FALSE, key |-> cacheKey, error |-> "none"]
        /\ fcall' = [op |-> "filter", rows |-> rows,
                     evicted |-> SelectSeq(filterResults,
                                    LAMBDA e : e.key \notin ResultKeys(stored))]
        /\ UNCHANGED <<conditions, logic, columnFilters, dateRanges, numericRanges,
                       cacheHits, searchVars, probeVars, renderVars, uxVars>>

\* AdvancedFilter.filter, a condition raising during the first pass: the
\* counters keep what the pass added, nothing is stored
FilterThrows(rows) ==
    LET cacheKey == generateCacheKey(conditions, columnFilters, dateRanges, numericRanges)
        out == compositeStageUntilThrow(rows, conditions, logic)
    IN  /\ cacheKey \notin ResultKeys(filterResults)
        /\ compositeStageThrows(rows, conditions, logic)
        /\ evaluations + out.evaluations <= MaxEvaluations
        /\ evaluations' = evaluations + out.evaluations
        /\ shortCircuits' = shortCircuits + out.shortCircuits
        /\ fret' = [NoFilterRet EXCEPT !.key = cacheKey, !.error = "TypeError"]
        /\ fcall' = [op |-> "filter", rows |-> rows, evicted |-> <<>>]
        /\ UNCHANGED <<conditions, logic, columnFilters, dateRanges, numericRanges,
                       filterResults, cacheHits, searchVars, probeVars, renderVars, uxVars>>

\* AdvancedFilter.clear
Clear ==
    /\ conditions' = <<>>
    /\ columnFilters' = <<>>
    /\ dateRanges' = <<>>
    /\ numericRanges' = <<>>
    /\ filterResults' = <<>>
    /\ Called("clear")
    /\ UNCHANGED <<logic, evaluations, shortCircuits, cacheHits, searchVars, probeVars, renderVars, uxVars>>

\* AdvancedFilter.clearCache
ClearCache ==
    /\ filterResults' = <<>>
    /\ Called("clearCache")
    /\ UNCHANGED <<conditions, logic, evaluations, shortCircuits, columnFilters,
                   dateRanges, numericRanges, cacheHits, searchVars, probeVars, renderVars, uxVars>>

DoAddCondition == \E c \in ConditionInputs : AddCondition(c)

DoRemoveCondition == \E i \in 0..(MaxConds - 1) : RemoveCondition(i)

DoAddColumnFilter == \E f \in ColumnFilterInputs : AddColumnFilter(f)

DoAddDateRange == \E f \in DateRangeInputs : AddDateRange(f)

DoAddNumericRange == \E f \in NumericRangeInputs : AddNumericRange(f)

DoFilterHit == FilterHit(RowsFilter)

DoFilterMiss == FilterMiss(RowsFilter)

\* The result cache over time: filters are added one by one to a fresh
\* AdvancedFilter, with filter calls in between.
NextFilterCache ==
    \/ \E f \in {f \in ColumnFilterInputs : f.field = "code"} : AddColumnFilter(f)
    \/ DoAddDateRange
    \/ \E f \in {f \in NumericRangeInputs : f.field = "points"} : AddNumericRange(f)
    \/ DoFilterHit
    \/ DoFilterMiss
    \/ Clear
    \/ ClearCache

SpecFilterCache == InitFilter /\ [][NextFilterCache]_vars

\* The cache key over time: conditions and a numeric range are added and
\* conditions removed, with filter calls in between.
NextFilterKeys ==
    \/ DoAddCondition
    \/ DoRemoveCondition
    \/ \E f \in {f \in NumericRangeInputs : f.field = "points"} : AddNumericRange(f)
    \/ DoFilterHit
    \/ DoFilterMiss

SpecFilterKeys == InitFilter /\ [][NextFilterKeys]_vars

\* the sequences over S of length at most n
SeqsUpTo(S, n) == UNION {[1..k -> S] : k \in 0..n}

\* the maps that add calls with the given inputs can build: entries in any
\* insertion order, one per field
MapsOver(inputs) ==
    {m \in SeqsUpTo(inputs, Cardinality({f.field : f \in inputs})) :
        \A i, j \in 1..Len(m) : i # j => m[i].field # m[j].field}

\* The pipeline on every configuration: an AdvancedFilter on which any of
\* the add calls have been made, then filter calls.
InitConfigured ==
    /\ FreshSearch
    /\ FreshProbe
    /\ FreshRender
    /\ FreshUx
    /\ conditions \in SeqsUpTo(ConditionInputs, MaxConds)
    /\ logic = "AND"
    /\ evaluations = 0
    /\ shortCircuits = 0
    /\ columnFilters \in MapsOver(ColumnFilterInputs)
    /\ dateRanges \in MapsOver(DateRangeInputs)
    /\ numericRanges \in MapsOver(NumericRangeInputs)
    /\ filterResults = <<>>
    /\ cacheHits = 0
    /\ fcall = NoFilterCall
    /\ fret = NoFilterRet

NextFilter == DoFilterHit \/ DoFilterMiss

SpecFilter == InitConfigured /\ [][NextFilter]_vars

\* the tables one AdvancedFilter is handed in turn (TableRenderer passes
\* this.data, which setData replaces)
FilterDatasets == {RowsFilter, RowsScenario}

DoFilterHitOn == \E rows \in FilterDatasets : FilterHit(rows)

DoFilterMissOn == \E rows \in FilterDatasets : FilterMiss(rows)

\* The pipeline on every configuration, called on one table and then on
\* another with the filters unchanged.
NextFilterData == DoFilterHitOn \/ DoFilterMissOn

SpecFilterData == InitConfigured /\ [][NextFilterData]_vars

-----------------------------------------------------------------------------
(* FilterCondition on its own: conditions constructed, added and matched *)

\* the rows handed to FilterCondition.matches: those of RowsFilter and a row
\* whose points is a number with a blank before it
MatchRows ==
    Range(RowsFilter) \cup
    {[code |-> Str(<<"A", "1">>), points |-> Str(<<" ", "1", "3", "0">>), date |-> Num(10)]}

\* an operator the switch of matches has no case for; between and
\* date-between values that are no 2-tuple
CondUnknown == [field |-> "points", operator |-> "regex", value |-> Str(<<"1">>)]
CondBetweenNumber == [field |-> "points", operator |-> "between", value |-> Num(5)]

MatchConditions ==
    { CondPoints, CondCode, CondUnknown, CondBetweenNumber,
      [field |-> "points", operator |-> "eq", value |-> Num(100)],
      [field |-> "points", operator |-> "gt", value |-> Num(100)],
      [field |-> "points", operator |-> "gt", value |-> Str(<<"x">>)],
      [field |-> "points", operator |-> "lt", value |-> Str(<<"1", "5", "0">>)],
      [field |-> "points", operator |-> "lte", value |-> Num(150)],
      [field |-> "points", operator |-> "lte", value |-> Undef],
      [field |-> "points", operator |-> "between",
       value |-> Arr(<<Num(100), Num(150)>>)],
      [field |-> "points", operator |-> "between", value |-> Arr(<<Num(100)>>)],
      [field |-> "points", operator |-> "in", value |-> Arr(<<Num(100), Num(200)>>)],
      [field |-> "points", operator |-> "in", value |-> Num(100)],
      [field |-> "date", operator |-> "date-between",
       value |-> Arr(<<Num(10), Num(20)>>)],
      [field |-> "date", operator |-> "date-between", value |-> Undef] }

\* new FilterCondition(field, operator, value).matches(row): the constructor
\* only assigns, then matches returns or raises
Matches(cond, row) ==
    /\ probe' = [op |-> "matches", cond |-> cond, row |-> row]
    /\ result' = IF conditionThrows(cond, row)
                 THEN [value |-> FALSE, error |-> "TypeError raised by matches"]
                 ELSE [value |-> conditionMatches(cond, row), error |-> "none"]
    /\ UNCHANGED <<searchVars, filterVars, renderVars, uxVars>>

DoMatches == \E cond \in MatchConditions, row \in MatchRows : Matches(cond, row)

DoAddAnyCondition ==
    \E cond \in {CondPoints, CondCode, CondUnknown, CondBetweenNumber} : AddCondition(cond)

NextCondition == DoMatches \/ DoAddAnyCondition

SpecCondition == InitFilter /\ [][NextCondition]_vars

-----------------------------------------------------------------------------
(* CompositeFilter inside an AdvancedFilter: matches calls and filter passes *)

\* direct compositeFilter.matches calls are not made beyond this count
MaxMatchCalls == 3

\* an AdvancedFilter on which addCondition calls have been made
InitComposite ==
    /\ FreshSearch
    /\ FreshProbe
    /\ FreshRender
    /\ FreshUx
    /\ conditions \in SeqsUpTo({CondPoints, CondCode, CondUnknown, CondBetweenNumber},
                                MaxConds)
    /\ logic = "AND"
    /\ evaluations = 0
    /\ shortCircuits = 0
    /\ columnFilters = <<>>
    /\ dateRanges = <<>>
    /\ numericRanges = <<>>
    /\ filterResults = <<>>
    /\ cacheHits = 0
    /\ fcall = NoFilterCall
    /\ fret = NoFilterRet

\* compositeFilter.matches(row), called on the filter's public field
CompositeMatches(row) ==
    LET m == compositeMatches(conditions, logic, row)
    IN  /\ evaluations < MaxMatchCalls
        /\ probe' = [op |-> "compositeMatches", row |-> row]
        /\ fcall' = [op |-> "matches", rows |-> <<row>>, evicted |-> <<>>]
        /\ fret' = NoFilterRet
        /\ evaluations' = evaluations + 1
        /\ IF compositeThrows(conditions, logic, row)
           THEN /\ result' = [value |-> FALSE, error |-> "TypeError raised by matches"]
                /\ shortCircuits' = shortCircuits
           ELSE /\ result' = [value |-> m.result, error |-> "none"]
                /\ shortCircuits' = shortCircuits + m.shortCircuits
        /\ UNCHANGED <<conditions, logic, columnFilters, dateRanges, numericRanges,
                       filterResults, cacheHits, searchVars, renderVars, uxVars>>

DoCompositeMatches == \E r \in 1..Len(RowsScenario) : CompositeMatches(RowsScenario[r])

NextComposite ==
    \/ DoCompositeMatches
    \/ FilterHit(RowsScenario)
    \/ FilterMiss(RowsScenario)
    \/ FilterThrows(RowsScenario)

SpecComposite == InitComposite /\ [][NextComposite]_vars

-----------------------------------------------------------------------------
(* A CompositeFilter on its own, of either logic, as
   CompositeFilterEditor.toCompositeFilter constructs it *)

\* new CompositeFilter(logic)
InitLogic ==
    /\ FreshSearch
    /\ FreshProbe
    /\ FreshRender
    /\ FreshUx
    /\ conditions = <<>>
    /\ logic \in {"AND", "OR"}
    /\ evaluations = 0
    /\ shortCircuits = 0
    /\ columnFilters = <<>>
    /\ dateRanges = <<>>
    /\ numericRanges = <<>>
    /\ filterResults = <<>>
    /\ cacheHits = 0
    /\ fcall = NoFilterCall
    /\ fret = NoFilterRet

\* CompositeFilter.clearConditions
ClearConditions ==
    /\ conditions' = <<>>
    /\ Called("clearConditions")
    /\ UNCHANGED <<logic, evaluations, shortCircuits, columnFilters, dateRanges,
                   numericRanges, filterResults, cacheHits, searchVars, probeVars, renderVars, uxVars>>

NextLogic ==
    \/ DoAddAnyCondition
    \/ DoRemoveCondition
    \/ ClearConditions
    \/ DoCompositeMatches

SpecLogic == InitLogic /\ [][NextLogic]_vars

-----------------------------------------------------------------------------
(* The InvertedIndexBuilder on its own: tokenize calls; build, then search calls *)

\* the datasets hold at most MaxRows rows, the texts tokenized at most
\* MaxTextLen characters
MaxRows == 2
MaxTextLen == 6
MaxDistinctLen == 7

\* rows with inner and surrounding blanks, upper case, a value longer than
\* the widest n-gram, a zero, a missing column
IndexRows ==
    { [code |-> Str(<<"a", " ", "b">>), points |-> Num(12)],
      [code |-> Str(<<"A", "b">>)],
      [code |-> Str(<<"a", "b", "a", "b", " ", "a">>), points |-> Num(0)],
      [code |-> Str(<<" ", "b", " ">>), points |-> Num(12)],
      [points |-> Num(1)] }

IndexDatasets == SeqsUpTo(IndexRows, MaxRows)

Texts == SeqsUpTo({"a", "b"}, MaxTextLen)

\* texts of up to MaxDistinctLen characters that are all different
DistinctTexts ==
    {SubSeq(<<"a", "b", "c", "d", "e", "f", "g", "h", "i">>, 1, n) : n \in 0..MaxDistinctLen}

\* String(v) of a value that is there; a missing field has no text
StringValue(v) ==
    CASE v.t = "undef" -> <<>>
      [] v.t = "num"   -> NumToString(v.n)
      [] v.t = "str"   -> v.s

\* the case-folded, trimmed string value of a field
Normalized(v) == trim(toLowerCase(StringValue(v)))

\* keywords that are no token as typed: other case, surrounding blanks, none
ExtraKeywords ==
    { <<>>, <<" ", " ">>, <<"A", "B">>, <<" ", "a", "B", " ">>, <<"c">>,
      <<"b", "a", "b", " ", " ">> }

\* the keywords searched on an index of d: every token of every field value
\* of d, and the extra ones
IndexKeywords(d) ==
    ExtraKeywords \cup
    UNION {Range(tokenize(Normalized(Field(d[r], ColumnKeys[c]))))
              : r \in 1..Len(d), c \in 1..Len(ColumnKeys)}

\* new InvertedIndexBuilder().build(rows, columns)
InitIndex ==
    /\ data \in IndexDatasets
    /\ columns = ColumnKeys
    /\ index = build(data, columns)
    /\ cache = <<>>
    /\ call = NoCall
    /\ ret = NoRet
    /\ touched = Touched({}, FALSE)
    /\ FreshFilter
    /\ FreshProbe
    /\ FreshRender
    /\ FreshUx

\* InvertedIndexBuilder.tokenize(text)
Tokenize(text) ==
    /\ probe' = [op |-> "tokenize", text |-> text]
    /\ result' = [value |-> tokenize(text), error |-> "none"]
    /\ UNCHANGED <<searchVars, filterVars, renderVars, uxVars>>

\* InvertedIndexBuilder.search(keyword)
IndexSearch(keyword) ==
    /\ probe' = [op |-> "indexSearch", keyword |-> keyword]
    /\ result' = [value |-> indexSearch(index, keyword), error |-> "none"]
    /\ UNCHANGED <<searchVars, filterVars, renderVars, uxVars>>

DoTokenize == \E text \in Texts \cup DistinctTexts : Tokenize(text)

DoIndexSearch == \E keyword \in IndexKeywords(data) : IndexSearch(keyword)

NextIndex == DoIndexSearch

SpecIndex == InitIndex /\ [][NextIndex]_vars

\* new InvertedIndexBuilder(), then tokenize calls
InitTokenize == FreshSearch /\ FreshFilter /\ FreshProbe /\ FreshRender /\ FreshUx

NextTokenize == DoTokenize

SpecTokenize == InitTokenize /\ [][NextTokenize]_vars

\* the datasets a builder is built on again: rows with blanks, upper case
\* and a missing column
BuildDatasets ==
    SeqsUpTo({ [code |-> Str(<<"a", " ", "b">>), points |-> Num(12)],
               [code |-> Str(<<"A", "b">>)],
               [points |-> Num(1)] }, MaxRows)

\* new InvertedIndexBuilder().build(rows, columns)
InitBuild ==
    /\ data \in BuildDatasets
    /\ columns = ColumnKeys
    /\ index = build(data, columns)
    /\ cache = <<>>
    /\ call = NoCall
    /\ ret = NoRet
    /\ touched = Touched({}, FALSE)
    /\ FreshFilter
    /\ FreshProbe
    /\ FreshRender
    /\ FreshUx

\* build(rows, columns) on the builder that was built on `data`
Build(rows) ==
    /\ probe' = [op |-> "build", previous |-> data]
    /\ result' = [value |-> <<>>, error |-> "none"]
    /\ data' = rows
    /\ index' = rebuild(index, rows, columns)
    /\ UNCHANGED <<columns, cache, call, ret, touched, filterVars, renderVars, uxVars>>

DoBuild == \E rows \in BuildDatasets : Build(rows)

NextBuild == DoBuild

SpecBuild == InitBuild /\ [][NextBuild]_vars

-----------------------------------------------------------------------------
(* TableRenderer: keyword search and advanced filters on one table
   src/static/js/table-renderer.js *)

\* new TableRenderer(container, adapter); setData(rows)
InitRenderer ==
    /\ data = RowsScenario
    /\ columns = ColumnKeys
    /\ index = build(data, columns)
    /\ cache = <<>>
    /\ call = NoCall
    /\ ret = NoRet
    /\ touched = Touched({}, FALSE)
    /\ FreshFilter
    /\ FreshProbe
    /\ filteredData = data
    /\ lastSearchKeyword = <<>>
    /\ useOptimizedSearch = TRUE
    /\ sortColumn = "none"
    /\ sortDirection = "asc"
    /\ filteredAlias = OwnArray
    /\ FreshUx

\* the else branch of filterByKeyword: this.data.filter over the adapter's
\* columns
fallbackFilter(rows, cols, lowerKeyword) ==
    SelectSeq(rows, LAMBDA item :
        \E c \in 1..Len(cols) :
            includes(toLowerCase(StringOrEmpty(Field(item, cols[c]))), lowerKeyword))

\* TableRenderer.filterByKeyword
FilterByKeyword(keyword) ==
    LET lowerKeyword == trim(toLowerCase(keyword))
        r == incrementalSearch(cache, index, data, columns, lastSearchKeyword, keyword)
    IN  /\ probe' = [op |-> "filterByKeyword", keyword |-> keyword]
        /\ result' = [value |-> <<>>, error |-> "none"]
        /\ IF lowerKeyword = <<>>
           THEN /\ filteredData' = data
                /\ UNCHANGED <<index, cache, call, ret, touched>>
           ELSE IF ~useOptimizedSearch
           THEN /\ filteredData' = fallbackFilter(data, columns, lowerKeyword)
                /\ UNCHANGED <<index, cache, call, ret, touched>>
           ELSE /\ HitsBounded(r.cache)
                /\ r.ret.error = "none"
                /\ filteredData' = r.ret.rows
                /\ index' = r.index
                /\ cache' = r.cache
                /\ ret' = r.ret
                /\ touched' = r.touched
                /\ call' = [op |-> "incrementalSearch", prev |-> lastSearchKeyword,
                            kw |-> keyword, repeat |-> FALSE]
        /\ lastSearchKeyword' = lowerKeyword
        /\ filteredAlias' = OwnArray
        /\ UNCHANGED <<useOptimizedSearch, sortColumn, sortDirection>>
        /\ UNCHANGED <<data, columns, filterVars, uxVars>>

\* TableRenderer.applyAllFilters with useAdvancedFilter = true, run on the
\* maps cf, dr, nr the add call before it left: the early return, or
\* advancedFilter.filter(this.data) (its cache-hit return, or its four passes
\* and the store) and filteredData = filterResult.results
ApplyAllFilters(cf, dr, nr) ==
    LET cacheKey == generateCacheKey(conditions, cf, dr, nr)
    IN  IF cf = <<>> /\ dr = <<>> /\ nr = <<>>
        THEN /\ probe' = [op |-> "applyAllFilters", ran |-> FALSE]
             /\ fret' = NoFilterRet
             /\ UNCHANGED <<filteredData, filteredAlias, filterResults, cacheHits,
                            evaluations, shortCircuits>>
        ELSE IF cacheKey \in ResultKeys(filterResults)
        THEN /\ cacheHits < MaxCacheHits
             /\ probe' = [op |-> "applyAllFilters", ran |-> TRUE]
             /\ cacheHits' = cacheHits + 1
             /\ filteredData' = filterResults[ResultPos(filterResults, cacheKey)].results
             /\ filteredAlias' = CachedArray(cacheKey)
             /\ fret' = [results |-> filteredData',
                         count |-> filterResults[ResultPos(filterResults, cacheKey)].count,
                         hit |-> TRUE, key |-> cacheKey, error |-> "none"]
             /\ filterResults' =
                   [filterResults EXCEPT ![ResultPos(filterResults, cacheKey)].served = @ + 1]
             /\ UNCHANGED <<evaluations, shortCircuits>>
        ELSE /\ ~compositeStageThrows(data, conditions, logic)
             /\ probe' = [op |-> "applyAllFilters", ran |-> TRUE]
             /\ filteredData' = filterPipeline(data, conditions, logic, cf, dr, nr).rows
             /\ filteredAlias' = CachedArray(cacheKey)
             /\ evaluations' =
                   evaluations + compositeStage(data, conditions, logic).evaluations
             /\ shortCircuits' =
                   shortCircuits + compositeStage(data, conditions, logic).shortCircuits
             /\ evaluations' <= MaxEvaluations
             /\ fret' = [results |-> filteredData', count |-> Len(filteredData'),
                         hit |-> FALSE, key |-> cacheKey, error |-> "none"]
             /\ filterResults' =
                   filterResultsStore(filterResults,
                       [key |-> cacheKey, results |-> filteredData',
                        count |-> Len(filteredData'),
                        active |-> ActiveSet(conditions, cf, dr, nr), served |-> 0])
             /\ UNCHANGED cacheHits

\* what every add...Filter method of TableRenderer leaves alone
AddFilterFrame(op) ==
    /\ fcall' = [op |-> op, rows |-> data, evicted |-> <<>>]
    /\ result' = [value |-> <<>>, error |-> "none"]
    /\ UNCHANGED <<conditions, logic, lastSearchKeyword, useOptimizedSearch,
                   sortColumn, sortDirection, searchVars, uxVars>>

\* TableRenderer.addColumnFilter
RendererAddColumnFilter(f) ==
    LET cf == IF Len(f.values) > 0 THEN MapPut(columnFilters, f) ELSE columnFilters
    IN  /\ columnFilters' = cf
        /\ UNCHANGED <<dateRanges, numericRanges>>
        /\ ApplyAllFilters(cf, dateRanges, numericRanges)
        /\ AddFilterFrame("addColumnFilter")

\* TableRenderer.addDateRangeFilter
RendererAddDateRangeFilter(f) ==
    LET dr == MapPut(dateRanges, f)
    IN  /\ dateRanges' = dr
        /\ UNCHANGED <<columnFilters, numericRanges>>
        /\ ApplyAllFilters(columnFilters, dr, numericRanges)
        /\ AddFilterFrame("addDateRangeFilter")

\* TableRenderer.addNumericRangeFilter
RendererAddNumericRangeFilter(f) ==
    LET nr == MapPut(numericRanges, f)
    IN  /\ numericRanges' = nr
        /\ UNCHANGED <<columnFilters, dateRanges>>
        /\ ApplyAllFilters(columnFilters, dateRanges, nr)
        /\ AddFilterFrame("addNumericRangeFilter")

\* TableRenderer.clearAllFilters: advancedFilter.clear(), all rows shown
ClearAllFilters ==
    /\ conditions' = <<>>
    /\ columnFilters' = <<>>
    /\ dateRanges' = <<>>
    /\ numericRanges' = <<>>
    /\ filterResults' = <<>>
    /\ filteredData' = data
    /\ filteredAlias' = OwnArray
    /\ Called("clear")
    /\ probe' = [op |-> "clearAllFilters"]
    /\ result' = [value |-> <<>>, error |-> "none"]
    /\ UNCHANGED <<logic, evaluations, shortCircuits, cacheHits, lastSearchKeyword,
                   useOptimizedSearch, sortColumn, sortDirection, searchVars, uxVars>>

\* the UTF-16 code units of the characters the model's strings hold, in
\* ascending order
CodeUnits ==
    <<" ", "+", "-", "0", "1", "2", "3", "4", "5", "6", "7", "8", "9",
      "A", "B", "C", "a", "b", "c", "d", "e", "f", "g", "h", "i", "x">>

CharCode(c) == CHOOSE i \in 1..Len(CodeUnits) : CodeUnits[i] = c

\* a < b on two strings: code unit by code unit, a proper prefix first
RECURSIVE StringLess(_, _)
StringLess(a, b) ==
    IF b = <<>> THEN FALSE
    ELSE IF a = <<>> THEN TRUE
    ELSE IF Head(a) # Head(b) THEN CharCode(Head(a)) < CharCode(Head(b))
    ELSE StringLess(Tail(a), Tail(b))

\* parseInt(v): the model's numbers are integers and its numeric strings
\* hold an optional sign and digits
parseInt(v) == parseFloat(v)

\* TableAdapter.canSort with the columns of CSVTableAdapter.getColumns, all
\* sortable: the column is one of the table's
canSort(column) == column \in Range(columns)

\* CSVTableAdapter.getSortValue
getSortValue(row, column) ==
    IF column = "points"
    THEN LET n == parseInt(Field(row, "points"))
         IN  Num(IF n.nan THEN 0 ELSE n.n)
    ELSE Str(toLowerCase(StringOrEmpty(Field(row, column))))

\* aValue < bValue on two sort values of one column
SortValueLess(a, b) == IF a.t = "num" THEN a.n < b.n ELSE StringLess(a.s, b.s)

\* the comparator sortByColumn hands to Array.prototype.sort
sortCompare(a, b, column, direction) ==
    LET aValue == getSortValue(a, column)
        bValue == getSortValue(b, column)
    IN  IF SortValueLess(aValue, bValue) THEN (IF direction = "asc" THEN -1 ELSE 1)
        ELSE IF SortValueLess(bValue, aValue) THEN (IF direction = "asc" THEN 1 ELSE -1)
        ELSE 0

\* x put into a sorted array after every element that does not come after it
RECURSIVE SortedInsert(_, _, _, _)
SortedInsert(sorted, x, column, direction) ==
    IF sorted = <<>> THEN <<x>>
    ELSE IF sortCompare(x, Head(sorted), column, direction) < 0
         THEN <<x>> \o sorted
         ELSE <<Head(sorted)>> \o SortedInsert(Tail(sorted), x, column, direction)

\* Array.prototype.sort with that comparator: a stable sort
RECURSIVE sortRows(_, _, _)
sortRows(rows, column, direction) ==
    IF rows = <<>> THEN <<>>
    ELSE SortedInsert(sortRows(SubSeq(rows, 1, Len(rows) - 1), column, direction),
                      rows[Len(rows)], column, direction)

\* what this.filteredData.sort(...) does to the result cache: the array is
\* sorted in place, so a cache entry holding that very array is reordered
sortInPlace(fr, alias, sorted) ==
    IF alias.cached /\ alias.key \in ResultKeys(fr)
    THEN [fr EXCEPT ![ResultPos(fr, alias.key)].results = sorted]
    ELSE fr

\* TableRenderer.sortByColumn
SortByColumn(column) ==
    LET direction == IF sortColumn = column
                     THEN (IF sortDirection = "asc" THEN "desc" ELSE "asc")
                     ELSE "asc"
        sorted == sortRows(filteredData, column, direction)
    IN  /\ probe' = [op |-> "sortByColumn", column |-> column,
                     ran |-> canSort(column)]
        /\ result' = [value |-> <<>>, error |-> "none"]
        /\ IF ~canSort(column)
           THEN UNCHANGED <<sortColumn, sortDirection, filteredData, filterResults>>
           ELSE /\ sortColumn' = column
                /\ sortDirection' = direction
                /\ filteredData' = sorted
                /\ filterResults' = sortInPlace(filterResults, filteredAlias, sorted)
        /\ UNCHANGED <<conditions, logic, evaluations, shortCircuits, columnFilters,
                       dateRanges, numericRanges, cacheHits, fcall, fret,
                       lastSearchKeyword, useOptimizedSearch, filteredAlias,
                       searchVars, uxVars>>

DoSortByColumn == \E column \in {"code", "points", "memo"} : SortByColumn(column)

DoFilterByKeyword == \E k \in {S_A, S_A1, S_blank} : FilterByKeyword(k)

DoRendererAddColumnFilter ==
    \E f \in {f \in ColumnFilterInputs : f.field = "code"} \cup
             {[field |-> "code", values |-> <<>>]} : RendererAddColumnFilter(f)

DoRendererAddDateRangeFilter == \E f \in DateRangeInputs : RendererAddDateRangeFilter(f)

DoRendererAddNumericRangeFilter ==
    \E f \in {f \in NumericRangeInputs : f.field = "points"} :
        RendererAddNumericRangeFilter(f)

NextRenderer ==
    \/ DoFilterByKeyword
    \/ DoRendererAddColumnFilter
    \/ DoRendererAddDateRangeFilter
    \/ DoRendererAddNumericRangeFilter
    \/ ClearAllFilters

SpecRenderer == InitRenderer /\ [][NextRenderer]_vars

\* The table sorted by its column headers while advanced filters are set
NextSort ==
    \/ DoRendererAddColumnFilter
    \/ DoRendererAddNumericRangeFilter
    \/ DoSortByColumn
    \/ ClearAllFilters

SpecSort == InitRenderer /\ [][NextSort]_vars

\* new TableRenderer(container, adapter); setData(rows), on either table
InitKeyword ==
    /\ data \in {RowsScenario, RowsLong}
    /\ columns = ColumnKeys
    /\ index = build(data, columns)
    /\ cache = <<>>
    /\ call = NoCall
    /\ ret = NoRet
    /\ touched = Touched({}, FALSE)
    /\ FreshFilter
    /\ FreshProbe
    /\ filteredData = data
    /\ lastSearchKeyword = <<>>
    /\ useOptimizedSearch = TRUE
    /\ sortColumn = "none"
    /\ sortDirection = "asc"
    /\ filteredAlias = OwnArray
    /\ FreshUx

\* TableRenderer.setOptimizedSearch
SetOptimizedSearch(enabled) ==
    /\ useOptimizedSearch' = enabled
    /\ probe' = [op |-> "setOptimizedSearch", enabled |-> enabled]
    /\ result' = [value |-> <<>>, error |-> "none"]
    /\ UNCHANGED <<filteredData, lastSearchKeyword, sortColumn, sortDirection,
                   filteredAlias, searchVars, filterVars, uxVars>>

DoTypeKeyword == \E k \in Keywords : FilterByKeyword(k)

DoSetOptimizedSearch == \E enabled \in BOOLEAN : SetOptimizedSearch(enabled)

\* The search box of one table, with the optimized search switched on and off
NextKeyword == DoTypeKeyword \/ DoSetOptimizedSearch

SpecKeyword == InitKeyword /\ [][NextKeyword]_vars

-----------------------------------------------------------------------------
(* FilterUIManager: a filter panel holding column-filter sections only
   (createColumnFilterUI called for each field; no date or numeric section,
   so the two querySelectorAll loops over them find nothing)
   src/unnamed/part_002, lines 503-677 *)

\* the most values the arrays of activeFilters hold together
MaxActiveValues == 4

\* the checkboxes of the panel in document order:
\* createColumnFilterUI('code', ['A1', 'B1']); createColumnFilterUI('points', [100])
CheckBoxes ==
    << [field |-> "code",   value |-> <<"A", "1">>],
       [field |-> "code",   value |-> <<"B", "1">>],
       [field |-> "points", value |-> <<"1", "0", "0">>] >>

\* querySelectorAll('input[type="checkbox"]:checked'): document order
CheckedInOrder(chk) ==
    SelectSeq([i \in 1..Len(CheckBoxes) |-> i], LAMBDA i : i \in chk)

\* one iteration of the collecting forEach: the field's array is created if
\* activeFilters has none, then cb.value is pushed
ActivePush(af, cb) ==
    LET withField == IF cb.field \in FieldsOf(af) THEN af
                     ELSE Append(af, [field |-> cb.field, values |-> <<>>])
    IN  [withField EXCEPT ![FieldPos(withField, cb.field)].values =
                               Append(@, Str(cb.value))]

RECURSIVE CollectChecked(_, _)
CollectChecked(af, boxes) ==
    IF boxes = <<>> THEN af
    ELSE CollectChecked(ActivePush(af, CheckBoxes[Head(boxes)]), Tail(boxes))

\* activeFilters.forEach((values, field) => advancedFilter.addColumnFilter(field, values))
RECURSIVE AddEachColumnFilter(_, _)
AddEachColumnFilter(cf, af) ==
    IF af = <<>> THEN cf
    ELSE AddEachColumnFilter(IF Len(Head(af).values) > 0 THEN MapPut(cf, Head(af)) ELSE cf,
                             Tail(af))

RECURSIVE TotalValues(_)
TotalValues(af) == IF af = <<>> THEN 0 ELSE Len(Head(af).values) + TotalValues(Tail(af))

\* FilterUIManager.applyFilters with chk the boxes checked when it runs:
\* advancedFilter.clear(), the checked boxes collected into activeFilters,
\* one addColumnFilter per entry of activeFilters
ApplyFilters(chk) ==
    /\ activeFilters' = CollectChecked(activeFilters, CheckedInOrder(chk))
    /\ TotalValues(activeFilters') <= MaxActiveValues
    /\ columnFilters' = AddEachColumnFilter(<<>>, activeFilters')
    /\ conditions' = <<>>
    /\ dateRanges' = <<>>
    /\ numericRanges' = <<>>
    /\ filterResults' = <<>>
    /\ Called("applyFilters")
    /\ result' = [value |-> <<>>, error |-> "none"]
    /\ UNCHANGED <<logic, evaluations, shortCircuits, cacheHits, searchVars,
                   renderVars, history, currentIndex>>

\* the change listener of a checkbox, after the user has toggled box i
ChangeCheckbox(i) ==
    /\ checked' = IF i \in checked THEN checked \ {i} ELSE checked \cup {i}
    /\ probe' = [op |-> "change", box |-> i]
    /\ ApplyFilters(checked')

\* the click listener of a section's clear button
ClickClear(field) ==
    /\ checked' = {i \in checked : CheckBoxes[i].field # field}
    /\ probe' = [op |-> "clear", field |-> field]
    /\ ApplyFilters(checked')

InitFilterUI ==
    /\ FreshSearch
    /\ FreshFilter
    /\ FreshProbe
    /\ FreshRender
    /\ FreshUx

DoChangeCheckbox == \E i \in 1..Len(CheckBoxes) : ChangeCheckbox(i)

DoClickClear == \E field \in {"code", "points"} : ClickClear(field)

NextFilterUI == DoChangeCheckbox \/ DoClickClear

SpecFilterUI == InitFilterUI /\ [][NextFilterUI]_vars

-----------------------------------------------------------------------------
(* FilterHistory  src/static/js/filter-ux-enhancement.js, lines 290-400 *)

\* FilterHistory.maxSize of the instance under check (constructor argument;
\* the default is 50)
historyMaxSize == 3

\* a condition of the editor whose value is undefined
CondNoValue == [field |-> "code", operator |-> "equals", value |-> Undef]

\* the arguments of record: action, the editor's conditions, its logic
RecordInputs ==
    {[action |-> "add",    conditions |-> <<CondPoints>>,  logic |-> "AND"],
     [action |-> "remove", conditions |-> <<>>,            logic |-> "AND"],
     [action |-> "add",    conditions |-> <<CondNoValue>>, logic |-> "OR"]}

\* JSON.parse(JSON.stringify(conditions)): a property whose value is
\* undefined is left out of the copy
JsonCopy(conds) ==
    [i \in 1..Len(conds) |->
        IF conds[i].value.t = "undef"
        THEN [field |-> conds[i].field, operator |-> conds[i].operator]
        ELSE conds[i]]

\* record that keeps the records after the current one
recordKeepingLater(h, ci, rec) ==
    LET pushed == Append(h, rec)
        kept == IF Len(pushed) > historyMaxSize THEN Tail(pushed) ELSE pushed
    IN  [history |-> kept, currentIndex |-> Len(kept) - 1]

\* FilterHistory.record on history h and currentIndex ci: slice, push, shift
record(h, ci, rec) ==
    LET pushed == Append(SubSeq(h, 1, ci + 1), rec)
        kept == IF Len(pushed) > historyMaxSize THEN Tail(pushed) ELSE pushed
    IN  [history |-> kept, currentIndex |-> Len(kept) - 1]

\* what no method of FilterHistory touches
HistoryFrame == UNCHANGED <<searchVars, filterVars, renderVars, checked, activeFilters>>

\* FilterHistory.record (the timestamp is never read)
HistoryRecord(in) ==
    LET r == record(history, currentIndex,
                    [action |-> in.action, conditions |-> JsonCopy(in.conditions),
                     logic |-> in.logic])
    IN  /\ history' = r.history
        /\ currentIndex' = r.currentIndex
        \* discarded: how many records the slice dropped
        /\ probe' = [op |-> "record", action |-> in.action,
                     discarded |-> Len(history) - (currentIndex + 1)]
        /\ result' = [value |-> <<>>, error |-> "none"]
        /\ HistoryFrame

\* FilterHistory.undo: the record returned, <<>> for null
HistoryUndo ==
    /\ probe' = [op |-> "undo"]
    /\ IF currentIndex > 0
       THEN /\ currentIndex' = currentIndex - 1
            /\ result' = [value |-> <<history[currentIndex' + 1]>>, error |-> "none"]
       ELSE /\ result' = [value |-> <<>>, error |-> "none"]
            /\ UNCHANGED currentIndex
    /\ UNCHANGED history
    /\ HistoryFrame

\* FilterHistory.redo: the record returned, <<>> for null
HistoryRedo ==
    /\ probe' = [op |-> "redo"]
    /\ IF currentIndex < Len(history) - 1
       THEN /\ currentIndex' = currentIndex + 1
            /\ result' = [value |-> <<history[currentIndex' + 1]>>, error |-> "none"]
       ELSE /\ result' = [value |-> <<>>, error |-> "none"]
            /\ UNCHANGED currentIndex
    /\ UNCHANGED history
    /\ HistoryFrame

\* FilterHistory.clear
HistoryClear ==
    /\ history' = <<>>
    /\ currentIndex' = -1
    /\ probe' = [op |-> "clearHistory"]
    /\ result' = [value |-> <<>>, error |-> "none"]
    /\ HistoryFrame

InitHistory == InitFilterUI

DoHistoryRecord == \E in \in RecordInputs : HistoryRecord(in)

NextHistory == DoHistoryRecord \/ HistoryUndo \/ HistoryRedo \/ HistoryClear

SpecHistory == InitHistory /\ [][NextHistory]_vars

-----------------------------------------------------------------------------
(* Properties of the SearchOptimizer *)

Clean(keyword) == trim(toLowerCase(keyword))

CachedResults(c, key) == c[CachePos(c, key)].results

\* the keyword of the call extends a non-empty previous keyword
Extends(prevKeyword, newKeyword) ==
    /\ Clean(prevKeyword) # <<>>
    /\ startsWith(Clean(newKeyword), Clean(prevKeyword))

(* C1: two consecutive search(k) calls return the same set of rows, and the
   second one returns source = 'cache'. *)
C1_SearchTwice ==
    [][(call.op = "search" /\ call'.op = "search" /\ call'.kw = call.kw)
          => /\ ret'.source = "cache"
             /\ Range(ret'.idx) = Range(ret.idx)
             /\ Range(ret'.rows) = Range(ret.rows)]_vars

C1_Witness ==
    /\ call.op = "search"
    /\ call.repeat
    /\ ret.source = "cache"
    /\ ret.rows # <<>>

(* C2: when normalized k1 is a non-empty prefix of normalized k2,
   incrementalSearch(k1, k2) returns the same set of rows as the inverted
   index gives for k2. *)
C2_IncrementalEqualsFull ==
    (call.op = "incrementalSearch" /\ Extends(call.prev, call.kw))
        => /\ ret.error = "none"
           /\ Range(ret.idx) = Range(indexToResults(indexSearch(index, call.kw), data).idx)

(* C3: the number of cached entries never exceeds maxSize. *)
C3_CacheBounded == Len(cache) <= maxSize

\* the cache as SearchCache.set received it in the step, when it was called
SetCalled == ret'.error = "none" /\ (ret'.source = "index" \/ ret'.isIncremental = "true")
SetSaw == IF ret'.isIncremental = "true" THEN cacheGet(cache, call'.prev).cache ELSE cache

(* C4: a set of a key not in the cache, while the cache holds maxSize
   entries, removes exactly one entry before the insert: the earliest-inserted
   one among those of minimum hitCount. *)
C4_EvictsLeastUsed ==
    [][(SetCalled /\ Len(SetSaw) = maxSize /\ Clean(call'.kw) \notin CacheKeys(SetSaw))
          => \E p \in 1..Len(SetSaw) :
                /\ \A q \in 1..Len(SetSaw) : SetSaw[p].hitCount <= SetSaw[q].hitCount
                /\ \A q \in 1..(p - 1) : SetSaw[q].hitCount > SetSaw[p].hitCount
                /\ Len(cache') = maxSize
                /\ cache'[maxSize].key = Clean(call'.kw)
                /\ cache' = Append(RemoveAt(SetSaw, p), cache'[maxSize])]_vars

(* C9: incrementalSearch(prev, new) returns isIncremental = true exactly when
   normalized new starts with normalized prev, normalized prev is non-empty
   and prev is in the search cache when the call is made; otherwise it returns
   what search(new) returns, with isIncremental = false. *)
C9_IncrementalExactlyWhen ==
    [][call'.op = "incrementalSearch"
          => LET applies == /\ Extends(call'.prev, call'.kw)
                            /\ Clean(call'.prev) \in CacheKeys(cache)
                 full == search(cache, index, data, call'.kw)
             IN  /\ (ret'.isIncremental = "true") <=> applies
                 /\ ~applies => /\ ret' = [full.ret EXCEPT !.isIncremental = "false"]
                                /\ cache' = full.cache]_vars

C9_Witness ==
    /\ call.op = "incrementalSearch"
    /\ ret.isIncremental = "true"
    /\ Clean(call.kw) # Clean(call.prev)

\* some column of the row holds a value of which kw is a substring, case ignored
HoldsIgnoringCase(row, kw) ==
    \E c \in 1..Len(columns) :
        LET value == StringOrEmpty(Field(row, columns[c]))
        IN  \E i \in 0..(Len(value) - Len(kw)) :
                \A j \in 1..Len(kw) : LowerChar(value[i + j]) = kw[j]

(* C10: with a result for k1 in the cache and k2 extending k1 (normalized k1
   non-empty), incrementalSearch(k1, k2) returns isIncremental = true and
   exactly the rows of the cached k1 result of which some column value
   contains normalized k2, case ignored; a subset of the cached k1 result. *)
C10_IncrementalRescan ==
    [][(/\ call'.op = "incrementalSearch"
        /\ Extends(call'.prev, call'.kw)
        /\ Clean(call'.prev) \in CacheKeys(cache))
          => LET prevResults == CachedResults(cache, Clean(call'.prev))
                 kept == SelectSeq(prevResults,
                            LAMBDA i : HoldsIgnoringCase(data[i + 1], Clean(call'.kw)))
             IN  /\ ret'.isIncremental = "true"
                 /\ ret'.idx = kept
                 /\ ret'.rows = [j \in 1..Len(kept) |-> data[kept[j] + 1]]
                 /\ Range(ret'.idx) \subseteq Range(prevResults)]_vars

\* scenario 1: "A" gives rows 0 and 1, then ("A", "A1") gives row 0 only
C10_Witness ==
    /\ data = RowsScenario
    /\ call.op = "incrementalSearch"
    /\ call.prev = S_A
    /\ call.kw = S_A1
    /\ ret.isIncremental = "true"
    /\ ret.idx = <<0>>
    /\ CachedResults(cache, Clean(S_A)) = <<0, 1>>

\* the rows the index holds under a normalized keyword
Stored(idx, key) == IF key \in DOMAIN idx THEN idx[key] ELSE <<>>

(* C11: a call answered incrementally (isIncremental = true) reads no row of
   the dataset other than those in the cached result of prevKeyword, and does
   not consult the index. *)
C11_TouchesOnlyPrevious ==
    [][(call'.op = "incrementalSearch" /\ ret'.isIncremental = "true")
          => /\ touched'.rows \subseteq Range(CachedResults(cache, Clean(call'.prev)))
             /\ ~touched'.index]_vars

\* scenario 1: the rescan for "A1" reads rows 0 and 1 of the three rows
C11_Witness ==
    /\ call.op = "incrementalSearch"
    /\ ret.isIncremental = "true"
    /\ Len(data) = 3
    /\ touched.rows = {0, 1}
    /\ ~touched.index

(* C12: a keystroke query (incrementalSearch, as TableRenderer.filterByKeyword
   calls it) whose new keyword already has a result in the search cache
   returns that cached result, with source = 'cache', and is not answered by
   a rescan of the previous result. *)
C12_CacheFirst ==
    [][(call'.op = "incrementalSearch" /\ Clean(call'.kw) \in CacheKeys(cache))
          => /\ ret'.source = "cache"
             /\ ret'.isIncremental # "true"
             /\ ret'.idx = indexToResults(CachedResults(cache, Clean(call'.kw)), data).idx]_vars

(* C13: search(k) returns source = 'cache' iff the normalized keyword is in
   the cache when the call begins; otherwise it returns source = 'index' with
   the rows the index holds for k, and after the call the cache holds that
   result under the normalized keyword. *)
C13_SearchCacheOrIndex ==
    [][call'.op = "search"
          => LET key == Clean(call'.kw)
             IN  /\ (ret'.source = "cache") <=> (key \in CacheKeys(cache))
                 /\ key \notin CacheKeys(cache)
                      => /\ ret'.source = "index"
                         /\ ret'.idx = Stored(index, key)
                         /\ key \in CacheKeys(cache')
                         /\ CachedResults(cache', key) = Stored(index, key)]_vars

\* a miss answered from the index with rows, stored under the lower-cased,
\* trimmed keyword
C13_Witness ==
    /\ call.op = "search"
    /\ call.kw = S_A1
    /\ ret.source = "index"
    /\ ret.idx # <<>>
    /\ Clean(S_A1) \in CacheKeys(cache)
    /\ CachedResults(cache, Clean(S_A1)) = ret.idx

(* C24: the rows search and incrementalSearch return are in strictly
   ascending row-index order, whether they come from the index, from the
   cache or from an incremental rescan. *)
C24_RowsAscending ==
    /\ \A j, k \in 1..Len(ret.idx) : j < k => ret.idx[j] < ret.idx[k]
    /\ Len(ret.rows) = Len(ret.idx)
    /\ \A j \in 1..Len(ret.idx) : ret.rows[j] = data[ret.idx[j] + 1]

\* rows 0 and 1 returned by a rescan of a cached result
C24_Witness ==
    /\ call.op = "incrementalSearch"
    /\ ret.isIncremental = "true"
    /\ ret.idx = <<0, 1>>
    /\ ret.rows = <<data[1], data[2]>>

(* C25: no search, incrementalSearch or search-cache operation changes the
   inverted index: after any sequence of queries it is the index build
   produced from the dataset. *)
C25_IndexImmutable == index = build(data, columns)

\* a full cache, an eviction made, the last call answered by a rescan
C25_Witness ==
    /\ Len(cache) = maxSize
    /\ call.op = "incrementalSearch"
    /\ ret.isIncremental = "true"
    /\ Clean(S_A) \notin CacheKeys(cache)
    /\ DOMAIN index # {}

(* C31: after initialize has replaced the dataset, every search and
   incrementalSearch that returns gives only rows of the new dataset that
   the new index can select for the keyword, i.e. rows in which some column
   value contains the cleaned keyword (every token of the index is a
   substring of a value of its rows); nothing comes from a cache entry
   computed for the earlier dataset. *)
C31_FreshAfterInitialize ==
    (call.op \in {"search", "incrementalSearch"} /\ ret.error = "none")
        => \A j \in 1..Len(ret.idx) :
              /\ ret.idx[j] < Len(data)
              /\ ret.rows[j] = data[ret.idx[j] + 1]
              /\ rowContains(data[ret.idx[j] + 1], columns, Clean(call.kw))

(* C32: no sequence of initialize, search and incrementalSearch calls with
   string keywords raises an exception. *)
C32_NoException == ret.error = "none"

(* C33: on a fixed dataset, after any sequence of search and
   incrementalSearch calls every search-cache entry holds the rows the
   inverted index returns for its key. *)
C33_CacheEqualsIndex ==
    \A i \in 1..Len(cache) :
        Range(cache[i].results) = Range(indexSearch(index, cache[i].key))

-----------------------------------------------------------------------------
(* Properties of the InvertedIndexBuilder *)

\* the non-empty contiguous substrings of v
AllSubstrings(v) == {SubSeq(v, i, j) : i \in 1..Len(v), j \in 1..Len(v)} \ {<<>>}

\* T is a token of the text v: a substring of 1 to 4 characters, or v itself
IsToken(T, v) == T # <<>> /\ T \in AllSubstrings(v) /\ (Len(T) <= 4 \/ T = v)

\* T is a token of some listed column of the row
IsTokenOfRow(T, row) ==
    \E c \in 1..Len(columns) : IsToken(T, Normalized(Field(row, columns[c])))

(* C14: for every row R of the indexed dataset, every field F of R and every
   token t of F's value, search(t) returns a set that contains R's index. *)
C14_TokenFindsRow ==
    probe.op = "indexSearch"
        => \A r \in 1..Len(data) :
              IsTokenOfRow(probe.keyword, data[r]) => (r - 1) \in Range(result.value)

(* C15: after build, a row index r is in index[T] iff T is a token of the
   case-folded, trimmed string value of at least one listed column of row r;
   no key maps to an empty set and the empty string is not a key. *)
C15_IndexExact ==
    /\ <<>> \notin DOMAIN index
    /\ \A T \in DOMAIN index : index[T] # <<>>
    /\ \A r \in 1..Len(data) :
          \A T \in (DOMAIN index) \cup
                    UNION {AllSubstrings(Normalized(Field(data[r], columns[c])))
                              : c \in 1..Len(columns)} :
              (T \in DOMAIN index /\ (r - 1) \in Range(index[T]))
                  <=> IsTokenOfRow(T, data[r])

(* C16: tokenize(text) returns, without duplicates, exactly the contiguous
   substrings of text of 1, 2, 3 and 4 characters together with text itself;
   no token for the empty text. *)
C16_TokenizeExact ==
    probe.op = "tokenize"
        => LET text == probe.text
               toks == result.value
           IN  /\ \A i, j \in 1..Len(toks) : i # j => toks[i] # toks[j]
               /\ Range(toks) = {T \in AllSubstrings(text) : Len(T) <= 4}
                                   \cup (IF text = <<>> THEN {} ELSE {text})
               /\ text = <<>> => toks = <<>>

\* a text longer than the widest n-gram whose substrings repeat
C16_Witness ==
    /\ probe.op = "tokenize"
    /\ probe.text = <<"a", "b", "a", "b", "a">>
    /\ probe.text \in Range(result.value)
    /\ Len(result.value) = 9

(* C17: InvertedIndexBuilder.search(keyword) returns the rows stored under
   the trimmed, case-folded keyword, the empty set and no error when that is
   not a key (an empty or blank keyword, an index of no rows); keywords that
   differ only in case or surrounding blanks give the same result. *)
C17_IndexSearch ==
    probe.op = "indexSearch"
        => /\ result.error = "none"
           /\ result.value = Stored(index, Clean(probe.keyword))
           /\ Clean(probe.keyword) \notin DOMAIN index => result.value = <<>>
           /\ \A k \in IndexKeywords(data) :
                  Clean(k) = Clean(probe.keyword) => indexSearch(index, k) = result.value

\* a keyword in other case with surrounding blanks finds the rows of "ab"
C17_Witness ==
    /\ probe.op = "indexSearch"
    /\ probe.keyword = <<" ", "a", "B", " ">>
    /\ Len(result.value) = 2

(* C27: building on dataset B after the builder was built on dataset A
   gives the index a new builder gives for B; no token and no row index of A
   remains. *)
C27_BuildDependsOnArguments ==
    probe.op = "build"
        => /\ index = build(data, columns)
           /\ \A T \in DOMAIN index : \A k \in 1..Len(index[T]) :
                 /\ index[T][k] < Len(data)
                 /\ T \in RowTokens(data[index[T][k] + 1], columns)

\* built on two rows, then on one row that has none of the tokens of the
\* first two
C27_Witness ==
    /\ probe.op = "build"
    /\ Len(probe.previous) = 2
    /\ Len(data) = 1
    /\ DOMAIN index # {}
    /\ DOMAIN build(probe.previous, columns) \cap DOMAIN index = {}

(* C28: for an input of length L, tokenize emits at most 1 + 3*L distinct
   tokens. *)
C28_TokenCountBound ==
    probe.op = "tokenize" => Len(result.value) <= 1 + 3 * Len(probe.text)

(* C28, amended: for an input of length L, tokenize emits at most 1 + 3*L
   distinct tokens when L <= 6 and at most 4*L - 5 when L > 6 (L single
   characters, L-1, L-2 and L-3 n-grams of 2, 3 and 4 characters, the text). *)
C28_TokenCountBoundAmended ==
    probe.op = "tokenize"
        => /\ \A i, j \in 1..Len(result.value) : i # j => result.value[i] # result.value[j]
           /\ Len(result.value) <= IF Len(probe.text) <= 6
                                   THEN 1 + 3 * Len(probe.text)
                                   ELSE 4 * Len(probe.text) - 5

\* seven different characters: 7 + 6 + 5 + 4 + 1 = 23 tokens
C28_Witness ==
    /\ probe.op = "tokenize"
    /\ Len(probe.text) = 7
    /\ Len(result.value) = 23

-----------------------------------------------------------------------------
(* Properties of the AdvancedFilter *)

CurrentActiveSet == ActiveSet(conditions, columnFilters, dateRanges, numericRanges)

KeysOf(fr) == [i \in 1..Len(fr) |-> fr[i].key]

(* C5: a filter() call made while the cache holds the result of a filter()
   call with the same set of active constraints computes the same cache key
   as that call did and is a cache hit, whatever the order the constraints
   were added in. *)
C5_SameSetSameKey ==
    [][fcall'.op = "filter"
          => \A i \in 1..Len(filterResults) :
                filterResults[i].active = CurrentActiveSet
                    => fret'.key = filterResults[i].key /\ fret'.hit]_vars

(* C6: the result cache never holds more than its capacity of keys, and a
   miss on a full cache removes the key inserted earliest, whatever hits the
   keys have served. *)
C6_BoundedFifo ==
    /\ [](Len(filterResults) <= FilterCacheMax)
    /\ [][(fcall'.op = "filter" /\ ~fret'.hit /\ Len(filterResults) = FilterCacheMax)
             => KeysOf(filterResults') = Append(Tail(KeysOf(filterResults)), fret'.key)]_vars

\* the evicted key had served a hit, a key that stays had served none
C6_Witness ==
    /\ fcall.op = "filter"
    /\ Len(fcall.evicted) = 1
    /\ fcall.evicted[1].served >= 1
    /\ filterResults[1].served = 0
    /\ Len(filterResults) = FilterCacheMax

InColumnFilter(row, f) == \E k \in 1..Len(f.values) : Field(row, f.field) = f.values[k]

InDateRange(row, f) ==
    /\ Field(row, f.field).t = "num"
    /\ f.start <= Field(row, f.field).n
    /\ Field(row, f.field).n <= f.end

\* the row's value parses to a number v with min <= v <= max
InNumericRange(row, f) ==
    LET v == parseFloat(Field(row, f.field))
    IN  ~v.nan /\ f.min <= v.n /\ v.n <= f.max

\* the conjunction of the four stages and of all fields within a stage
SatisfiesAll(row) ==
    /\ \A i \in 1..Len(conditions) : conditionMatches(conditions[i], row)
    /\ \A i \in 1..Len(columnFilters) : InColumnFilter(row, columnFilters[i])
    /\ \A i \in 1..Len(dateRanges) : InDateRange(row, dateRanges[i])
    /\ \A i \in 1..Len(numericRanges) : InNumericRange(row, numericRanges[i])

(* C7: on a cache miss, filter(data).results is exactly the rows of data, in
   input order, that satisfy every condition, every column filter, every date
   range and every numeric range. *)
C7_MissIsConjunction ==
    (fcall.op = "filter" /\ ~fret.hit)
        => /\ fret.results = SelectSeq(fcall.rows, SatisfiesAll)
           /\ fret.count = Len(fret.results)

\* all four stages are active, two conditions and two numeric ranges among
\* them, and narrow the six rows to one
C7_Witness ==
    /\ fcall.op = "filter"
    /\ ~fret.hit
    /\ Len(conditions) = 2
    /\ Len(columnFilters) = 1
    /\ dateRanges # <<>>
    /\ Len(numericRanges) = 2
    /\ Len(fret.results) = 1

(* C8: a numeric range [min, max] on field f keeps a row iff the row's f
   value parses to a number v with min <= v <= max, both bounds inclusive;
   a row whose f value is missing or not numeric is excluded. *)
C8_NumericRange ==
    (fcall.op = "filter" /\ ~fret.hit)
        => /\ \A i \in 1..Len(numericRanges) : \A k \in 1..Len(fret.results) :
                  InNumericRange(fret.results[k], numericRanges[i])
           /\ (conditions = <<>> /\ columnFilters = <<>> /\ dateRanges = <<>>
                   /\ Len(numericRanges) = 1)
                 => \A k \in 1..Len(fcall.rows) :
                       (fcall.rows[k] \in Range(fret.results))
                           <=> LET v == Field(fcall.rows[k], numericRanges[1].field)
                                   f == numericRanges[1]
                               IN  /\ v.t # "undef"
                                   /\ ~parseFloat(v).nan
                                   /\ f.min <= parseFloat(v).n
                                   /\ parseFloat(v).n <= f.max

\* scenario 3: points in [100, 150] keeps rows 0 and 2 (both bounds met),
\* the numeric string "120x", and drops 200, the missing and the "x1" value
C8_Witness ==
    /\ fcall.op = "filter"
    /\ ~fret.hit
    /\ conditions = <<>> /\ columnFilters = <<>> /\ dateRanges = <<>>
    /\ numericRanges = <<[field |-> "points", min |-> 100, max |-> 150]>>
    /\ fret.results = <<RowsFilter[1], RowsFilter[3], RowsFilter[5]>>

\* what the result cache holds: keys in insertion order with the stored objects
Content(fr) == [i \in 1..Len(fr) |->
                   [key |-> fr[i].key, results |-> fr[i].results, count |-> fr[i].count]]

(* C26: a filter call made while its key is in the result cache returns the
   stored result without running a stage: evaluations, shortCircuits and the
   cache content are unchanged and cacheHits increases by exactly 1. *)
C26_HitBypassesStages ==
    [][(/\ fcall'.op = "filter"
        /\ generateCacheKey(conditions, columnFilters, dateRanges, numericRanges)
              \in ResultKeys(filterResults))
          => LET key == generateCacheKey(conditions, columnFilters, dateRanges,
                                         numericRanges)
                 stored == filterResults[ResultPos(filterResults, key)]
             IN  /\ fret'.error = "none"
                 /\ fret'.results = stored.results
                 /\ fret'.count = stored.count
                 /\ evaluations' = evaluations
                 /\ shortCircuits' = shortCircuits
                 /\ Content(filterResults') = Content(filterResults)
                 /\ cacheHits' = cacheHits + 1]_vars

\* a hit with conditions set: the counters stand where the one pass over the
\* six rows left them
C26_Witness ==
    /\ fcall.op = "filter"
    /\ fret.hit
    /\ conditions = <<CondPoints, CondCode>>
    /\ fret.results # <<>>
    /\ evaluations = 6
    /\ cacheHits = 1

(* C34: AdvancedFilter.filter returns only rows of the data argument of
   that very call, also when an earlier call with the same active filters
   was made on another dataset. *)
C34_RowsOfThisCall ==
    (fcall.op = "filter" /\ fret.error = "none")
        => \A k \in 1..Len(fret.results) : fret.results[k] \in Range(fcall.rows)

-----------------------------------------------------------------------------
(* Properties of FilterCondition and CompositeFilter *)

KnownOperators ==
    {"eq", "contains", "gt", "gte", "lt", "lte", "between", "in", "date-between"}

\* a known operator, and a 2-tuple as the value of between and date-between
WellFormed(cond) ==
    /\ cond.operator \in KnownOperators
    /\ cond.operator \in {"between", "date-between"}
          => cond.value.t = "arr" /\ Len(cond.value.a) = 2

(* C18: a FilterCondition with an unknown operator, or with a between or
   date-between value that is no 2-tuple, is refused by the constructor: none
   gets into the condition list, and none is matched against a row. *)
C18_MalformedRejected ==
    /\ \A i \in 1..Len(conditions) : WellFormed(conditions[i])
    /\ (probe.op = "matches" /\ ~WellFormed(probe.cond))
          => result.error = "Error raised by the constructor"

\* the value is a number or a string that starts, after blanks and a sign,
\* with a digit
HasNumber(v) ==
    \/ v.t = "num"
    \/ /\ v.t = "str"
       /\ LET t == SkipBlanks(v.s)
              body == IF t # <<>> /\ Head(t) \in {"-", "+"} THEN Tail(t) ELSE t
          IN  body # <<>> /\ IsDigit(Head(body))

(* C19: for gt, gte, lt, lte and between (its value a 2-tuple), when the
   row's field value is missing or does not parse to a number, or, for gt,
   gte, lt and lte, the condition value does not, matches returns false and
   raises no error. *)
C19_NonNumericNoMatch ==
    (/\ probe.op = "matches"
     /\ probe.cond.operator \in {"gt", "gte", "lt", "lte", "between"}
     /\ WellFormed(probe.cond)
     /\ \/ ~HasNumber(Field(probe.row, probe.cond.field))
        \/ /\ probe.cond.operator \in {"gt", "gte", "lt", "lte"}
           /\ ~HasNumber(probe.cond.value))
        => result.value = FALSE /\ result.error = "none"

\* lte 150 on the row without points: NaN <= 150
C19_Witness ==
    /\ probe.op = "matches"
    /\ probe.cond = [field |-> "points", operator |-> "lte", value |-> Num(150)]
    /\ probe.row = RowsFilter[4]
    /\ result = [value |-> FALSE, error |-> "none"]

AllWellFormed == \A i \in 1..Len(conditions) : WellFormed(conditions[i])

\* some condition of the list does not hold for the row
Rejects(row) == \E i \in 1..Len(conditions) : ~conditionMatches(conditions[i], row)

(* C20: every CompositeFilter.matches call adds exactly 1 to evaluations;
   under AND with at least one condition it returns false and adds exactly 1
   to shortCircuits iff some condition fails for the row; one pass over n
   rows adds n to evaluations and the number of rejected rows to
   shortCircuits. *)
C20_Counters ==
    [][/\ fcall'.op = "matches"
            => /\ evaluations' = evaluations + 1
               /\ (AllWellFormed /\ logic = "AND" /\ conditions # <<>>)
                    => /\ result'.error = "none"
                       /\ (result'.value = FALSE /\ shortCircuits' = shortCircuits + 1)
                              <=> Rejects(fcall'.rows[1])
                       /\ ~Rejects(fcall'.rows[1])
                              => result'.value = TRUE /\ shortCircuits' = shortCircuits
       /\ (fcall'.op = "filter" /\ ~fret'.hit /\ AllWellFormed /\ conditions # <<>>)
            => /\ evaluations' = evaluations + Len(fcall'.rows)
               /\ shortCircuits' = shortCircuits
                      + Cardinality({i \in 1..Len(fcall'.rows) : Rejects(fcall'.rows[i])})]_vars

\* scenario 2: points gte 120 and code contains "A" over the three rows
C20_Witness ==
    /\ conditions = <<CondPoints, CondCode>>
    /\ fcall.op = "filter"
    /\ fret.results = <<RowsScenario[2]>>
    /\ evaluations = 3
    /\ shortCircuits = 2

(* C21: under OR with at least one condition, a CompositeFilter.matches call
   that returns, returns true iff at least one condition matches the row; no
   matches call under OR changes shortCircuits. *)
C21_OrSemantics ==
    [][(fcall'.op = "matches" /\ logic = "OR" /\ conditions # <<>>)
          => /\ shortCircuits' = shortCircuits
             /\ result'.error = "none"
                  => (result'.value
                        <=> \E i \in 1..Len(conditions) :
                               conditionMatches(conditions[i], fcall'.rows[1]))]_vars

\* points gte 120 or code contains "A" on row A1/100: the second condition
\* decides; an earlier call on the filter returned false
C21_Witness ==
    /\ logic = "OR"
    /\ conditions = <<CondPoints, CondCode>>
    /\ fcall.op = "matches"
    /\ fcall.rows = <<RowsScenario[1]>>
    /\ result = [value |-> TRUE, error |-> "none"]
    /\ evaluations = 2
    /\ shortCircuits = 0

(* C22: after any sequence of addCondition, removeCondition, clearConditions
   and matches calls on a CompositeFilter of either logic,
   shortCircuits <= evaluations. *)
C22_ShortCircuitsBounded == shortCircuits <= evaluations

\* calls of all four kinds made: two of three matches calls short-circuited
C22_Witness ==
    /\ logic = "AND"
    /\ fcall.op = "clearConditions"
    /\ evaluations = 3
    /\ shortCircuits = 2

\* the rearrangements of a list
Reorderings(conds) ==
    {[i \in 1..Len(conds) |-> conds[f[i]]] :
        f \in {g \in [1..Len(conds) -> 1..Len(conds)] :
                  \A i, j \in 1..Len(conds) : i # j => g[i] # g[j]}}

(* C23: for a fixed row, the boolean matches returns is the boolean it
   returns on a CompositeFilter of the same logic that holds any permutation
   of the list of conditions (compared wherever the call on the permuted
   list returns). *)
C23_OrderIrrelevant ==
    [][(fcall'.op = "matches" /\ result'.error = "none")
          => \A p \in Reorderings(conditions) :
                ~compositeThrows(p, logic, fcall'.rows[1])
                    => compositeMatches(p, logic, fcall'.rows[1]).result = result'.value]_vars

\* two different conditions of which the row fails the first only: the
\* permuted list decides at its second condition
C23_Witness ==
    /\ fcall.op = "matches"
    /\ Len(conditions) = 2
    /\ ~conditionMatches(conditions[1], fcall.rows[1])
    /\ conditionMatches(conditions[2], fcall.rows[1])
    /\ result.error = "none"

\* what compositeFilter.matches(row) gives on a list of conditions: the
\* boolean returned, or the error raised
Outcome(conds, lg, row) ==
    IF compositeThrows(conds, lg, row)
    THEN [value |-> FALSE, error |-> "TypeError raised by matches"]
    ELSE [value |-> compositeMatches(conds, lg, row).result, error |-> "none"]

KnownOperator(cond) == cond.operator \in KnownOperators

(* C29: a FilterCondition whose operator is none of eq, contains, gt, gte,
   lt, lte, between, in, date-between matches every row: an AND
   CompositeFilter of such conditions only returns true for every row, and
   an AND CompositeFilter gives for every row what it gives without them. *)
C29_UnknownOperatorMatchesAll ==
    [][(fcall'.op = "matches" /\ logic = "AND")
          => /\ (\A i \in 1..Len(conditions) : ~KnownOperator(conditions[i]))
                  => result' = [value |-> TRUE, error |-> "none"]
             /\ result' = Outcome(SelectSeq(conditions, KnownOperator), logic,
                                  fcall'.rows[1])]_vars

\* points gte 120 and points regex '1' on the row of 100 points: rejected,
\* by the first condition
C29_Witness ==
    /\ logic = "AND"
    /\ conditions = <<CondUnknown, CondPoints>>
    /\ fcall.op = "matches"
    /\ fcall.rows = <<RowsScenario[1]>>
    /\ result = [value |-> FALSE, error |-> "none"]
    /\ shortCircuits = 1

\* some advanced filter is set on the renderer's AdvancedFilter
FiltersActive == columnFilters # <<>> \/ dateRanges # <<>> \/ numericRanges # <<>>

(* C30: after applyAllFilters has run while a non-empty search keyword is
   active and at least one advanced filter is set, and after filterByKeyword
   with a non-empty keyword while advanced filters are set, filteredData
   holds only rows that match both the keyword and the advanced filters. *)
C30_FiltersCompose ==
    (/\ \/ probe.op = "applyAllFilters" /\ probe.ran
        \/ probe.op = "filterByKeyword"
     /\ lastSearchKeyword # <<>>
     /\ FiltersActive)
        => \A k \in 1..Len(filteredData) :
              /\ rowContains(filteredData[k], columns, lastSearchKeyword)
              /\ SatisfiesAll(filteredData[k])

(* C35: a cached filter result is not altered by its consumer: a cache hit
   of applyAllFilters returns the rows in the order of the dataset, also
   after sortByColumn has reordered the filteredData an earlier call of
   filter returned. *)
C35_CachedResultKeepsOrder ==
    (probe.op = "applyAllFilters" /\ probe.ran /\ fret.hit)
        => fret.results = SelectSeq(data, LAMBDA row : row \in Range(fret.results))

(* C36: after every filterByKeyword call on a fixed dataset, with the
   optimized search on, filteredData holds the same set of rows as the
   fallback linear scan: the rows where some column value contains the
   lower-cased trimmed keyword. *)
C36_OptimizedEqualsFallback ==
    (probe.op = "filterByKeyword" /\ lastSearchKeyword # <<>>)
        => Range(filteredData) = Range(fallbackFilter(data, columns, lastSearchKeyword))

\* the values of the boxes of a field that are checked, in document order
CheckedValues(field) ==
    LET boxes == SelectSeq(CheckedInOrder(checked),
                           LAMBDA i : CheckBoxes[i].field = field)
    IN  [k \in 1..Len(boxes) |-> Str(CheckBoxes[boxes[k]].value)]

(* C37: after every FilterUIManager.applyFilters call the column filter of
   each field consists of exactly the values of that field's checked
   checkboxes, each once; a field with no checked box has no column
   filter. *)
C37_FilterIsCheckedBoxes ==
    fcall.op = "applyFilters"
        => \A field \in {CheckBoxes[i].field : i \in 1..Len(CheckBoxes)} :
              IF CheckedValues(field) = <<>>
              THEN field \notin FieldsOf(columnFilters)
              ELSE /\ field \in FieldsOf(columnFilters)
                   /\ columnFilters[FieldPos(columnFilters, field)].values
                          = CheckedValues(field)

\* the history is within its size and the index within the history
HistoryInv ==
    /\ Len(history) <= historyMaxSize
    /\ -1 <= currentIndex
    /\ currentIndex <= Len(history) - 1
    /\ currentIndex = -1 => history = <<>>

\* a record call leaves the new record last and current, right after the
\* record that was current; a redo right after a record returns null
HistoryStep ==
    /\ probe'.op = "record"
          => /\ currentIndex' = Len(history') - 1
             /\ Len(history') <= currentIndex + 2
             /\ \A k \in 1..(Len(history') - 1) :
                   history'[k] = history[k + (currentIndex + 2 - Len(history'))]
    /\ (probe.op = "record" /\ probe'.op = "redo") => result'.value = <<>>

(* C38: after any sequence of FilterHistory record, undo, redo and clear
   calls the history holds at most maxSize records and
   -1 <= currentIndex <= length - 1, with currentIndex = -1 only when the
   history is empty; a record discards every record after the current one,
   so a redo that follows it immediately returns null. *)
C38_HistoryWellFormed == []HistoryInv /\ [][HistoryStep]_vars

\* a record made after two undos on a full history: the two later records
\* are gone and the index is on the new record
C38_Witness ==
    /\ probe.op = "record"
    /\ probe.discarded = 2
    /\ Len(history) = 2
    /\ currentIndex = 1
    /\ history[1] # history[2]

====
